---------------------------- MODULE Spec2Model ----------------------------
(***************************************************************************)
(* Model of the solar aspect pipeline (src/aspect/processing.cpp): class   *)
(* Aspect with LoadFrame, Run, FiducialRun, the data-product getters and   *)
(* the parameter setters, together with the private stages they call.      *)
(*                                                                         *)
(* Numbers.  C++ float/double values are modelled as exact rationals       *)
(* <<n, d>> (d > 0, lowest terms); every non-finite value (NaN, +-inf) is  *)
(* the single value NaN == <<0, 0>>.  Rounding of floats is not modelled.  *)
(* pixelError holds a standard deviation in the source; the model keeps    *)
(* its square (the variance) and compares squares, sqrt being monotone.    *)
(*                                                                         *)
(* Images.  A frame is described by its content (background, a bright      *)
(* solar disk) instead of a pixel array; Pix gives the byte at a           *)
(* position.  A cv::Mat view (frame(rowRange, colRange), row(), col())     *)
(* shares the buffer of the frame it was cut from, so views carry that     *)
(* frame.  The result of cv::matchTemplate on a frame is given with the    *)
(* frame (field corr: the non-zero cells of the correlation of the full    *)
(* frame with the kernel); the correlation of a sub-image is the           *)
(* restriction of it.                                                      *)
(***************************************************************************)
EXTENDS Integers, Sequences, FiniteSets, TLC

----------------------------------------------------------------------------
(* Exact rational arithmetic standing for float arithmetic.                *)

Abs(x) == IF x < 0 THEN -x ELSE x

Min2(a, b) == IF a < b THEN a ELSE b

Max2(a, b) == IF a > b THEN a ELSE b

RECURSIVE Gcd(_, _)
Gcd(a, b) == IF b = 0 THEN a ELSE Gcd(b, a % b)

NaN == <<0, 0>>

IsFinite(q) == q[2] # 0

Q(n, d) ==
    IF d = 0 THEN NaN
    ELSE LET g == Gcd(Abs(n), Abs(d))
         IN  IF d < 0 THEN <<(-n) \div g, (-d) \div g>> ELSE <<n \div g, d \div g>>

QInt(n) == <<n, 1>>

QNeg(a) == IF IsFinite(a) THEN <<-a[1], a[2]>> ELSE NaN

QAdd(a, b) ==
    IF ~IsFinite(a) \/ ~IsFinite(b) THEN NaN
    ELSE IF a[2] = 1 /\ b[2] = 1 THEN <<a[1] + b[1], 1>>
    ELSE LET g == Gcd(a[2], b[2])
             l == (a[2] \div g) * b[2]
         IN  Q(a[1] * (l \div a[2]) + b[1] * (l \div b[2]), l)

QSub(a, b) == QAdd(a, QNeg(b))

QMul(a, b) ==
    IF ~IsFinite(a) \/ ~IsFinite(b) THEN NaN
    ELSE IF a[2] = 1 /\ b[2] = 1 THEN <<a[1] * b[1], 1>>
    ELSE LET g1 == Gcd(Abs(a[1]), b[2])
             g2 == Gcd(Abs(b[1]), a[2])
         IN  Q((a[1] \div g1) * (b[1] \div g2), (a[2] \div g2) * (b[2] \div g1))

\* a / b; a division by zero gives a non-finite value
QDiv(a, b) ==
    IF ~IsFinite(a) \/ ~IsFinite(b) \/ b[1] = 0 THEN NaN
    ELSE QMul(a, IF b[1] < 0 THEN <<-b[2], -b[1]>> ELSE <<b[2], b[1]>>)

\* floor(a), a finite
QFloor(a) == a[1] \div a[2]

\* Comparisons; as in IEEE arithmetic every comparison with NaN is false.
\* Compared by integer parts first, so that no product overflows.
RECURSIVE FracLt(_, _, _, _)
FracLt(n1, d1, n2, d2) ==
    LET f1 == n1 \div d1
        f2 == n2 \div d2
        r1 == n1 % d1
        r2 == n2 % d2
    IN  IF f1 # f2 THEN f1 < f2
        ELSE IF r2 = 0 THEN FALSE
        ELSE IF r1 = 0 THEN TRUE
        ELSE FracLt(d2, r2, d1, r1)

QLt(a, b) == IsFinite(a) /\ IsFinite(b) /\ FracLt(a[1], a[2], b[1], b[2])

QGt(a, b) == QLt(b, a)

QLe(a, b) == IsFinite(a) /\ IsFinite(b) /\ ~FracLt(b[1], b[2], a[1], a[2])

QGe(a, b) == QLe(b, a)

QAbs(a) == IF IsFinite(a) THEN <<Abs(a[1]), a[2]>> ELSE NaN

\* conversion of a finite float to int: truncation toward zero
Trunc(a) == IF a[1] >= 0 THEN a[1] \div a[2] ELSE -((-a[1]) \div a[2])

\* cv::Point2f
Pt(x, y) == [x |-> x, y |-> y]

----------------------------------------------------------------------------
(* AspectCode.  The enumeration is declared in processing.hpp; its order   *)
(* is the severity order of the specification, with the group markers the  *)
(* getters compare against placed in front of their groups.                *)

AspectCodeOrder ==
    << "NO_ERROR", "DYNAMIC_RANGE_LOW", "MIN_MAX_BAD", "FRAME_EMPTY",
       "LIMB_ERROR", "NO_LIMB_CROSSINGS", "FEW_LIMB_CROSSINGS",
       "CENTER_ERROR", "CENTER_OUT_OF_BOUNDS", "CENTER_ERROR_LARGE",
       "SOLAR_IMAGE_EMPTY", "SOLAR_IMAGE_SMALL", "SOLAR_IMAGE_OFFSET_OUT_OF_BOUNDS",
       "FIDUCIAL_ERROR", "NO_FIDUCIALS", "FEW_FIDUCIALS",
       "ID_ERROR", "NO_IDS", "FEW_IDS",
       "MAPPING_ERROR", "MAPPING_ILL_CONDITIONED", "STALE_DATA" >>

Code(s) == CHOOSE i \in 1..Len(AspectCodeOrder) : AspectCodeOrder[i] = s

\* state < ceiling, as the getters compare enumerators
Below(s, ceiling) == Code(s) < Code(ceiling)

----------------------------------------------------------------------------
(* Frames and views.                                                       *)

\* a w x h frame: background bg, a disk of intensity fg of radius rad
\* centred on column cx, row cy; corr: cells <<m, n, v>> of the correlation
\* of the frame with the kernel that are not zero
Frame(w, h, bg, fg, cx, cy, rad, corr) ==
    [w |-> w, h |-> h, bg |-> bg, fg |-> fg, cx |-> cx, cy |-> cy, rad |-> rad,
     corr |-> corr]

\* cv::Mat(): no rows, no columns
EmptyFrame == Frame(0, 0, 0, 0, 0, 0, 0, {})

InDisk(f, r, c) == (c - f.cx) * (c - f.cx) + (r - f.cy) * (r - f.cy) <= f.rad * f.rad

\* the byte at row r, column c of frame f
Pix(f, r, c) == IF InDisk(f, r, c) THEN f.fg ELSE f.bg

\* frame(rowRange, colRange): a view sharing the frame's buffer
View(f, r0, r1, c0, c1) ==
    [f |-> f, r0 |-> r0, c0 |-> c0, rows |-> r1 - r0, cols |-> c1 - c0]

WholeFrame(f) == View(f, 0, f.h, 0, f.w)

MatEmpty(v) == v.rows = 0 \/ v.cols = 0

\* the sequence s with its elements computed
Vector(s) == s \o << >>

----------------------------------------------------------------------------
(* calcMinMax                                                              *)

\* cv::calcHist: the number of pixels in each of the 256 bins
calcHist(f) ==
    LET n   == f.w * f.h
        lit == Cardinality({i \in 0..(n - 1) : InDisk(f, i \div f.w, i % f.w)})
    IN  [v \in 0..255 |-> (IF v = f.fg THEN lit ELSE 0) + (IF v = f.bg THEN n - lit ELSE 0)]

\* total after the loop body has run for bins 0..j
Accumulated(hist, j) ==
    LET bins == {i \in 0..j : hist[i] # 0}
        RECURSIVE Sum(_)
        Sum(S) == IF S = {} THEN 0
                  ELSE LET i == CHOOSE x \in S : TRUE IN hist[i] + Sum(S \ {i})
    IN  Sum(bins)

\* had max been the first bin at which total > (long)(0.995 * len)
calcMinMaxAbove(f) ==
    LET hist == calcHist(f)
        len  == f.w * f.h
        lo   == {j \in 0..255 : 200 * Accumulated(hist, j) >= len}
        hi   == {j \in 0..255 : Accumulated(hist, j) > (995 * len) \div 1000}
    IN  [min |-> CHOOSE j \in lo : \A i \in lo : j <= i,
         max |-> CHOOSE j \in hi : \A i \in hi : j <= i]

\* The while loop: min is the first bin at which total >= 0.005 * len, max
\* the first at which total >= (long)(0.995 * len).  Both are found by bin
\* 255, where total = len, so the uint8_t counter j does not wrap.
calcMinMax(f) ==
    LET hist == calcHist(f)
        len  == f.w * f.h
        lo   == {j \in 0..255 : 200 * Accumulated(hist, j) >= len}
        hi   == {j \in 0..255 : Accumulated(hist, j) >= (995 * len) \div 1000}
    IN  [min |-> CHOOSE j \in lo : \A i \in lo : j <= i,
         max |-> CHOOSE j \in hi : \A i \in hi : j <= i]

----------------------------------------------------------------------------
(* The frames the model loads.                                             *)

\* the sun in the middle of an 80 x 80 frame, three fiducials in an L
SunThreeFiducials == Frame(80, 80, 10, 200, 40, 40, 26, {<<4, 4, 4>>, <<20, 51, 4>>, <<51, 20, 4>>})

\* the same sun, two fiducials
SunTwoFiducials == Frame(80, 80, 10, 200, 40, 40, 26, {<<4, 4, 4>>, <<20, 51, 4>>})

\* the sun off the middle, no fiducial
SunNoFiducials == Frame(80, 80, 10, 200, 44, 38, 26, {})

\* three fiducials no two of which are a lattice step apart
SunStrayFiducials == Frame(80, 80, 10, 200, 40, 40, 26, {<<4, 4, 4>>, <<30, 34, 4>>, <<61, 2, 4>>})

\* the sun cut by the left edge of the frame; on row 17 its limb rises at
\* column 1
SunAtLeftEdge == Frame(80, 80, 10, 200, 11, 41, 26, {})

\* the sun reaching down to row 78 of 80 on a column that is a chord
SunNearBottom == Frame(80, 80, 10, 200, 41, 52, 26, {})

\* the top of a sun whose centre is below the frame
SunBelowFrame == Frame(80, 80, 10, 200, 30, 122, 60, {})

\* one grey level
Uniform == Frame(80, 80, 128, 128, 40, 40, 0, {})

\* a range of 31 and a range of 32
Range31 == Frame(80, 80, 10, 41, 40, 40, 26, {})

Range32 == Frame(80, 80, 10, 42, 40, 40, 26, {})

\* a bright spot narrower than minLimbWidth on a 40 x 40 frame, and one a
\* single chord crosses
Spot == Frame(40, 40, 10, 200, 20, 20, 5, {})

Speck == Frame(80, 80, 10, 200, 40, 41, 8, {})

\* a 40 x 40 frame
SmallSun == Frame(40, 40, 10, 200, 20, 20, 12, {})

Frames ==
    { EmptyFrame, SunThreeFiducials, SunTwoFiducials, SunNoFiducials,
      SunStrayFiducials, SunAtLeftEdge, SunNearBottom, SunBelowFrame, Uniform, Range31,
      Range32, Spot, Speck, SmallSun }

\* For each frame of the model: its buffer by rows and by columns, and what
\* calcMinMax finds in it.
RECURSIVE Tabulate(_)
Tabulate(F) ==
    IF F = {} THEN << >>
    ELSE LET f == CHOOSE x \in F : TRUE
         IN  (f :> [rows   |-> Vector([r \in 1..f.h |->
                                   Vector([c \in 1..f.w |-> Pix(f, r - 1, c - 1)])]),
                    cols   |-> Vector([c \in 1..f.w |->
                                   Vector([r \in 1..f.h |-> Pix(f, r - 1, c - 1)])]),
                    minMax |-> calcMinMax(f)])
             @@ Tabulate(F \ {f})

\* the sun cut by the right edge of the frame
SunAtRightEdge == Frame(80, 80, 10, 200, 68, 41, 26, {})

\* a frame four rows shorter than the others
ShortFrame == Frame(80, 76, 10, 200, 40, 40, 26, {})

\* the sun cut by the bottom edge of the frame
SunAtBottomEdge == Frame(80, 80, 10, 200, 40, 60, 26, {})

\* the frames loaded one after another when the sun is tracked
TrackFrames == { SunAtLeftEdge, SunAtRightEdge, SunAtBottomEdge, ShortFrame }

\* Frames for the search of the fiducials: a 64 x 64 frame with a disk, on
\* which the matched filter responds at up to three of four places.  A and
\* B are on one row, 2*fiducialLength apart; C is on the next row, half way
\* between them; D is far from the three.
PeakPlaces == { <<3, 3>>, <<3, 33>>, <<4, 18>>, <<40, 18>> }

PeakValues == {3, 4}

PeakSets ==
    { c \in SUBSET (PeakPlaces \X PeakValues) :
        /\ Cardinality(c) \in 1..3
        /\ \A a \in c : \A b \in c : a[1] = b[1] => a = b }

FiducialFrames ==
    { Frame(64, 64, 10, 200, 32, 32, 20, { <<c[1][1], c[1][2], c[2]>> : c \in cs }) :
        cs \in PeakSets }

\* Frames for the identification of the fiducials: a 96 x 96 frame with a
\* disk and responses of the matched filter on the lattice of the fiducials.
LatticeFrame(corr) == Frame(96, 96, 10, 200, 48, 48, 30, corr)

\* P, and Q a lattice step to its right 47 rows down, S a lattice step down
\* 47 columns to its right: a row pair and a column pair
CornerOfThree == LatticeFrame({<<2, 20, 3>>, <<49, 36, 3>>, <<18, 67, 3>>})

\* the same with R a lattice step to the left of P, 50 rows down: the two
\* row pairs of P do not agree on its row
CornerWithStray == LatticeFrame({<<2, 20, 3>>, <<49, 36, 3>>, <<52, 4, 3>>, <<18, 67, 3>>})

\* the row pair 48 rows apart and the column pair 48 columns apart, between
\* two entries of the table
CornerBetween == LatticeFrame({<<2, 20, 3>>, <<50, 36, 3>>, <<18, 68, 3>>})

\* a chain: T a lattice step to the right of Q, 50 rows up
CornerWithChain == LatticeFrame({<<2, 20, 3>>, <<49, 36, 3>>, <<18, 67, 3>>, <<1, 52, 3>>})

\* three fiducials in no pair
Scattered == LatticeFrame({<<2, 20, 3>>, <<40, 40, 3>>, <<70, 10, 3>>})

\* on a wider frame: P, Q and S as before, U a lattice step to the left of
\* P 47 rows down, and B a lattice step to the left of U 50 rows up: the
\* two row pairs of U do not agree on its row
CornerWithTie ==
    Frame(112, 96, 10, 200, 56, 48, 30,
          {<<8, 33, 3>>, <<55, 49, 3>>, <<24, 80, 3>>, <<55, 17, 3>>, <<5, 1, 3>>})

IDFrames ==
    { CornerOfThree, CornerWithStray, CornerBetween, CornerWithChain, Scattered,
      CornerWithTie }

Buffer == Tabulate(Frames \cup TrackFrames \cup FiducialFrames \cup IDFrames)

\* The byte at offset idx of the frame's buffer (rows are contiguous).  An
\* offset past the end of the buffer is outside the allocation: the byte
\* read there is arbitrary (g).
Mem(f, idx, g) ==
    IF idx < f.w * f.h THEN Buffer[f].rows[(idx \div f.w) + 1][(idx % f.w) + 1] ELSE g

\* input.row(i), input.col(j): a chord is the buffer offset of its element
\* 0, the distance between consecutive elements, its length K, and the
\* bytes of its K elements
RowOf(v, i) ==
    [f |-> v.f, base |-> (v.r0 + i) * v.f.w + v.c0, stride |-> 1, K |-> v.cols,
     bytes |-> SubSeq(Buffer[v.f].rows[v.r0 + i + 1], v.c0 + 1, v.c0 + v.cols)]

ColOf(v, j) ==
    [f |-> v.f, base |-> v.r0 * v.f.w + v.c0 + j, stride |-> v.f.w, K |-> v.rows,
     bytes |-> SubSeq(Buffer[v.f].cols[v.c0 + j + 1], v.r0 + 1, v.r0 + v.rows)]

\* a cv::Mat of one row that owns its buffer
Strip(bytes) ==
    [f |-> Frame(Len(bytes), 1, 0, 0, 0, 0, 0, {}), base |-> 0, stride |-> 1,
     K |-> Len(bytes), bytes |-> bytes]

\* crossings.clear() and the return of -1
NoCrossings == [error |-> -1, crossings |-> << >>, slopes |-> << >>]

\* chord.at<unsigned char>(k)
ChordAt(ch, k, g) ==
    IF k < ch.K THEN ch.bytes[k + 1] ELSE Mem(ch.f, ch.base + ch.stride * k, g)

----------------------------------------------------------------------------
(* The object's state.                                                     *)

VARIABLES
    state,              \* AspectCode
    frame, frameSize,   \* the loaded frame and its size
    frameMin, frameMax,
    ints, floats,       \* the parameters, by AspectInt / AspectFloat name
    kernel,             \* the matched-filter template (the geometry it was drawn with)
    mDistances, nDistances,
    pixelCenter, pixelError,
    solarImage, solarImageSize, solarImageOffset,
    limbCrossings, slopes,
    pixelFiducials, fiducialIDs, rowPairs, colPairs,
    mapping,
    lastOp,             \* history: the last public method called
    called,             \* history: the stages the last Run/FiducialRun called, in order
    runs,               \* history: consecutive Run calls since anything else was called
    passed,             \* history: per parameter, the value last passed to its setter
    chordArg, crossingsOut,  \* FindLimbCrossings called by itself: its argument, its result
    calls,              \* history: the number of calls made on the object
    demo,               \* threadDemo.cpp: its globals and the position of each thread
    lattice             \* a pair of lattice neighbours: what the voting and the
                        \* ID-to-screen formula make of it

vars ==
    << state, frame, frameSize, frameMin, frameMax, ints, floats, kernel,
       mDistances, nDistances, pixelCenter, pixelError, solarImage,
       solarImageSize, solarImageOffset, limbCrossings, slopes, pixelFiducials,
       fiducialIDs, rowPairs, colPairs, mapping, lastOp, called, runs, passed,
       chordArg, crossingsOut, calls, demo, lattice >>

\* the Aspect object and its history
object ==
    << state, frame, frameSize, frameMin, frameMax, ints, floats, kernel,
       mDistances, nDistances, pixelCenter, pixelError, solarImage,
       solarImageSize, solarImageOffset, limbCrossings, slopes, pixelFiducials,
       fiducialIDs, rowPairs, colPairs, mapping, lastOp, called, runs, passed,
       chordArg, crossingsOut, calls >>

initialNumChords   == ints["NUM_CHORDS_SEARCHING"]
chordsPerAxis      == ints["NUM_CHORDS_OPERATING"]
minLimbWidth       == ints["MIN_LIMB_WIDTH"]
limbFitWidth       == ints["LIMB_FIT_WIDTH"]
solarRadius        == ints["SOLAR_RADIUS"]
fiducialLength     == ints["FIDUCIAL_LENGTH"]
fiducialWidth      == ints["FIDUCIAL_WIDTH"]
numFiducials       == ints["NUM_FIDUCIALS"]
limbThreshold      == floats["LIMB_THRESHOLD"]
diskThreshold      == floats["DISK_THRESHOLD"]
errorLimit         == floats["ERROR_LIMIT"]
radiusMargin       == floats["RADIUS_MARGIN"]
fiducialThreshold  == floats["FIDUCIAL_THRESHOLD"]
fiducialSpacing    == floats["FIDUCIAL_SPACING"]
fiducialSpacingTol == floats["FIDUCIAL_SPACING_TOL"]
fiducialTwist      == floats["FIDUCIAL_TWIST"]

----------------------------------------------------------------------------
(* Utility functions                                                       *)

\* cv::Range [start, end)
SafeRange(start, stop, size) ==
    [start |-> IF start > 0 THEN start ELSE 0,
     end   |-> IF stop < size THEN stop ELSE size]

\* the sum of the elements of s; the arithmetic is exact, so the order of
\* the additions does not show in the result
RECURSIVE QSum(_)
QSum(s) ==
    IF Len(s) = 0 THEN QInt(0)
    ELSE IF Len(s) = 1 THEN s[1]
    ELSE QAdd(QSum(SubSeq(s, 1, Len(s) \div 2)),
              QSum(SubSeq(s, Len(s) \div 2 + 1, Len(s))))

\* Least-squares line through (x[l], y[l]): the normal equations
\* A = [[Sxx, Sx], [Sx, N]], B = [Sxy, Sy] solved by cv::solve with
\* DECOMP_CHOLESKY, which leaves X zero when A is not positive definite.
LinearFit(x, y) ==
    LET solve(N, Sxx, Sx, Sy, Sxy) ==
            LET X(det) ==
                    IF ~IsFinite(det) THEN [intercept |-> NaN, slope |-> NaN]
                    ELSE IF ~QGt(det, QInt(0)) THEN [intercept |-> QInt(0), slope |-> QInt(0)]
                    ELSE [intercept |-> QDiv(QSub(QMul(Sxx, Sy), QMul(Sx, Sxy)), det),
                          slope     |-> QDiv(QSub(QMul(N, Sxy), QMul(Sx, Sy)), det)]
            IN  X(QSub(QMul(Sxx, N), QMul(Sx, Sx)))
    IN  solve(QInt(Len(x)),
              QSum(Vector([l \in 1..Len(x) |-> QMul(x[l], x[l])])),
              QSum(x),
              QSum(y),
              QSum(Vector([l \in 1..Len(x) |-> QMul(x[l], y[l])])))

\* the integers of the set S in ascending order
SortAsc(S) ==
    Vector([i \in 1..Cardinality(S) |->
               CHOOSE x \in S : Cardinality({y \in S : y < x}) = i - 1])

\* the concatenation of the sequences of ss
RECURSIVE Flatten(_)
Flatten(ss) ==
    IF Len(ss) = 0 THEN << >>
    ELSE IF Len(ss) = 1 THEN ss[1]
    ELSE Flatten(SubSeq(ss, 1, Len(ss) \div 2)) \o
         Flatten(SubSeq(ss, Len(ss) \div 2 + 1, Len(ss)))

----------------------------------------------------------------------------
(* FindLimbCrossings                                                       *)

lowerThreshold(fMin, fMax) == QAdd(QInt(fMin), QMul(limbThreshold, QInt(fMax - fMin)))

upperThreshold(fMin, fMax) == QAdd(QInt(fMin), QMul(diskThreshold, QInt(fMax - fMin)))

\* the scan of the chord: rising edges as +k, falling edges as -(k-1)
ScanEdges(chord, thr, g) ==
    LET b  == chord.bytes
        ks == SortAsc({k \in 1..(chord.K - 1) :
                         \/ b[k] <= thr /\ b[k + 1] > thr
                         \/ b[k] > thr /\ b[k + 1] <= thr})
    IN  [i \in 1..Len(ks) |-> IF b[ks[i] + 1] > thr THEN ks[i] ELSE -(ks[i] - 1)]

ChordMax(chord, g) ==
    LET vs == {chord.bytes[k] : k \in 1..chord.K}
    IN  CHOOSE v \in vs : \A u \in vs : u <= v

\* had the one edge been paired with a crossing at the strip's start
\* whichever way it crosses
LeadingEdges(edges, K) ==
    IF Abs(edges[1]) < 2 * solarRadius /\ edges[1] # 0
    THEN << -1, -Abs(edges[1]) >>
    ELSE << >>

\* one edge only: a crossing is added at the strip's end when the edge is
\* within a solar diameter of it; << >> when the chord is rejected
VirtualEdges(edges, K) ==
    IF Abs(edges[1]) < 2 * solarRadius /\ edges[1] < 0
    THEN << -1, -Abs(edges[1]) >>
    ELSE IF Abs(edges[1]) > K - 2 * solarRadius /\ edges[1] > 0
    THEN << Abs(edges[1]), -K >>
    ELSE << >>

\* several edges: both edges of every consecutive pair spaced <= minLimbWidth
\* are flagged, and the flagged edges erased
RemoveCloseEdges(edges) ==
    LET close(k) == Abs(Abs(edges[k]) - Abs(edges[k - 1])) <= minLimbWidth
        edgeFlag == [k \in 1..Len(edges) |->
                        \/ k > 1 /\ close(k)
                        \/ k < Len(edges) /\ close(k + 1)]
        keep == SortAsc({k \in 1..Len(edges) : ~edgeFlag[k]})
    IN  [i \in 1..Len(keep) |-> edges[keep[i]]]

\* had the fit not been checked against its window
AnyFitAccepted(fittedEdge, min, max) == FALSE

\* fittedEdge < min || fittedEdge > max: the fit left its window
OutsideFitWindow(fittedEdge, min, max) ==
    QLt(fittedEdge, QInt(min)) \/ QGt(fittedEdge, QInt(max))

\* the neighbourhood of an edge that the fit reads: chord.at(l), min <= l <= max
FitWindow(edge, K) ==
    [min |-> IF edge - limbFitWidth < 0 THEN 0 ELSE edge - limbFitWidth,
     max |-> IF edge + limbFitWidth > K THEN K ELSE edge + limbFitWidth]

\* the fit of one real edge: code 0 with the refined crossing and |slope|,
\* or the error code
FitEdge(chord, e, thr, g) ==
    LET K    == chord.K
        edge == Abs(e)
        min  == FitWindow(edge, K).min
        max  == FitWindow(edge, K).max
        N    == max - min + 1
        x    == Vector([i \in 1..N |-> QInt(min + i - 1 - edge)])
        y    == Vector([i \in 1..N |-> QInt(ChordAt(chord, min + i - 1, g))])
        fitted(fit) ==
            LET check(fittedEdge) ==
                    IF N < 2 THEN [code |-> -1]
                    ELSE IF ~IsFinite(fittedEdge) THEN [code |-> -2]
                    ELSE IF OutsideFitWindow(fittedEdge, min, max) THEN [code |-> -3]
                    ELSE [code |-> 0, crossing |-> fittedEdge, slope |-> QAbs(fit.slope)]
            IN  check(QAdd(QDiv(QSub(thr, fit.intercept), fit.slope), QInt(edge)))
    IN  fitted(LinearFit(x, y))

\* the loop over the two edges of an accepted pair
FitPair(chord, edges, thr, g) ==
    LET K  == chord.K
        pair(c0, c1) ==
            LET s0 == IF c0.code = 0 /\ "slope" \in DOMAIN c0 THEN <<c0.slope>> ELSE << >>
                s1 == IF c1.code = 0 /\ "slope" \in DOMAIN c1 THEN <<c1.slope>> ELSE << >>
            IN  IF c0.code # 0
                THEN [error |-> c0.code, crossings |-> << >>, slopes |-> << >>]
                ELSE IF c1.code # 0
                THEN [error |-> c1.code, crossings |-> <<c0.crossing>>, slopes |-> s0]
                ELSE [error |-> 0, crossings |-> <<c0.crossing, c1.crossing>>,
                      slopes |-> s0 \o s1]
    IN  pair(IF edges[1] = -1 THEN [code |-> 0, crossing |-> QInt(-1), virtual |-> TRUE]
             ELSE FitEdge(chord, edges[1], thr, g),
             IF edges[2] = -K THEN [code |-> 0, crossing |-> QInt(K), virtual |-> TRUE]
             ELSE FitEdge(chord, edges[2], thr, g))

\* The return code, the crossings vector and what was appended to slopes.
FindLimbCrossings(chord, fMin, fMax, g) ==
    LET K        == chord.K
        reject   == [error |-> -1, crossings |-> << >>, slopes |-> << >>]
        scanned(lower, edges) ==
            LET fit(paired) ==
                    IF QLt(QInt(ChordMax(chord, g)), upperThreshold(fMin, fMax)) THEN reject
                    ELSE IF Len(edges) = 0 THEN reject
                    ELSE IF Len(edges) = 1 /\ paired = << >> THEN reject
                    ELSE IF Len(paired) = 2 /\ paired[1] >= -1 /\ paired[2] < 0
                    THEN FitPair(chord, paired, lower, g)
                    ELSE reject
            IN  fit(IF Len(edges) = 1 THEN VirtualEdges(edges, K)
                    ELSE RemoveCloseEdges(edges))
    IN  scanned(lowerThreshold(fMin, fMax),
                ScanEdges(chord, Trunc(lowerThreshold(fMin, fMax)), g))

----------------------------------------------------------------------------
(* FindPixelCenter                                                         *)

\* a point outside [0, width) x [0, height) or not finite
OutOfFrame(p, size) ==
    \/ QLt(p.x, QInt(0)) \/ QGe(p.x, QInt(size.width))
    \/ QLt(p.y, QInt(0)) \/ QGe(p.y, QInt(size.height))
    \/ ~IsFinite(p.x) \/ ~IsFinite(p.y)

\* The virtual-crossing rule: a chord whose first crossing is -1, or whose
\* second crossing is the chord's length, is rejected unless the searched
\* image reaches that edge of the frame.  dim = 1: rows, dim = 0: columns.
RejectVirtual(dim, crossings, input, search, sOffset, f) ==
    LET off == IF search THEN 0 ELSE IF dim = 1 THEN sOffset.x ELSE sOffset.y
    IN  \/ crossings[1] = QInt(-1) /\ off > 0
        \/ /\ crossings[2] = QInt(IF dim = 1 THEN input.cols ELSE input.rows)
           /\ IF dim = 1 THEN off + input.cols < f.w ELSE off + input.rows < f.h

\* had only the fitted crossings of a chord been appended, a crossing
\* synthesized at the start of the strip left out
FittedChordPoints(dim, pos, crossings) ==
    LET fitted == SelectSeq(crossings, LAMBDA c : c # QInt(-1))
    IN  [l \in 1..Len(fitted) |->
            IF dim = 1 THEN Pt(fitted[l], QInt(pos)) ELSE Pt(QInt(pos), fitted[l])]

\* the crossings appended to limbCrossings for the chord at position pos
ChordPoints(dim, pos, crossings) ==
    [l \in 1..2 |-> IF dim = 1 THEN Pt(crossings[l], QInt(pos)) ELSE Pt(QInt(pos), crossings[l])]

\* One pass of the loop over the dimensions: the crossings and slopes it
\* appends, and the mean and the variance of the chords' midpoints.
CenterInDimension(dim, input, search, sOffset, f, fMin, fMax, g, positions) ==
    LET chords(res) ==
            LET midpointsOf(saved) ==
                    LET M == QInt(Len(saved))
                        stats(midpoints) ==
                            LET deviation(mean) ==
                                    [crossings |-> Flatten(Vector([i \in 1..Len(saved) |->
                                         ChordPoints(dim, positions[saved[i]],
                                                     res[saved[i]].crossings)])),
                                     slopes    |-> Flatten(Vector([k \in 1..Len(positions) |->
                                                      res[k].slopes])),
                                     mean      |-> mean,
                                     var       |-> QDiv(QSum(Vector([i \in 1..Len(saved) |->
                                                      QMul(QSub(midpoints[i], mean),
                                                           QSub(midpoints[i], mean))])), M)]
                            IN  deviation(QDiv(QSum(midpoints), M))
                    IN  stats(Vector([i \in 1..Len(saved) |->
                            QDiv(QAdd(res[saved[i]].crossings[1], res[saved[i]].crossings[2]),
                                 QInt(2))]))
            \* the chords whose crossings are saved
            IN  midpointsOf(SortAsc({k \in 1..Len(positions) :
                    /\ res[k].error = 0
                    /\ Len(res[k].crossings) = 2
                    /\ IsFinite(res[k].crossings[1]) /\ IsFinite(res[k].crossings[2])
                    /\ ~RejectVirtual(dim, res[k].crossings, input, search, sOffset, f)}))
    IN  chords(Vector([k \in 1..Len(positions) |->
            FindLimbCrossings(IF dim = 1 THEN RowOf(input, positions[k])
                              ELSE ColOf(input, positions[k]), fMin, fMax, g)]))

\* What FindPixelCenter leaves in pixelCenter, pixelError, limbCrossings and
\* slopes, given the members it reads.
FindPixelCenter(center, sImage, sOffset, f, fSize, fMin, fMax, g) ==
    LET mode(search) ==
            LET input   == IF search THEN WholeFrame(f) ELSE sImage
                limit   == IF search THEN initialNumChords ELSE chordsPerAxis
                rowStep == input.rows \div limit
                colStep == input.cols \div limit
                rows    == [k \in 1..limit |-> rowStep \div 2 + (k - 1) * rowStep]
                cols    == [k \in 1..limit |-> colStep \div 2 + (k - 1) * colStep]
                dx      == IF search THEN 0 ELSE sOffset.x
                dy      == IF search THEN 0 ELSE sOffset.y
                translated(found) ==
                    [i \in 1..Len(found) |->
                        Pt(QAdd(found[i].x, QInt(dx)), QAdd(found[i].y, QInt(dy)))]
                center2(d0, d1) ==
                    [pixelCenter   |-> Pt(QAdd(d1.mean, QInt(dx)), QAdd(d0.mean, QInt(dy))),
                     pixelError    |-> Pt(d1.var, d0.var),
                     limbCrossings |-> translated(d0.crossings \o d1.crossings),
                     slopes        |-> d0.slopes \o d1.slopes,
                     search        |-> search]
            IN  center2(CenterInDimension(0, input, search, sOffset, f, fMin, fMax, g, cols),
                        CenterInDimension(1, input, search, sOffset, f, fMin, fMax, g, rows))
    IN  mode(OutOfFrame(center, fSize) \/ MatEmpty(sImage))

----------------------------------------------------------------------------
(* GenerateKernel and FindPixelFiducials                                   *)

\* The template is a cross of the given length and width on a square of
\* side 2*(fiducialLength/2 + edge) + 1; the model keeps its geometry.
GenerateKernel(length, width) ==
    [rows |-> 2 * (length \div 2 + 1) + 1, cols |-> 2 * (length \div 2 + 1) + 1,
     fiducialLength |-> length, fiducialWidth |-> width]

\* matchTemplate(input, kernel, correlation, CV_TM_CCORR) on a view: the
\* result has (rows - kernel.rows + 1) x (cols - kernel.cols + 1) cells and
\* cell (m, n) is the frame's response at (m + r0, n + c0).  Cells not listed
\* are 0 and the listed ones are positive.
matchTemplate(v, k) ==
    LET rows == v.rows - k.rows + 1
        cols == v.cols - k.cols + 1
    IN  [rows  |-> rows, cols |-> cols,
         cells |-> {<<c[1] - v.r0, c[2] - v.c0, c[3]>> : c \in
                       {c \in v.f.corr : /\ c[1] - v.r0 \in 0..(rows - 1)
                                         /\ c[2] - v.c0 \in 0..(cols - 1)}}]

\* correlation.at<float>(m, n)
CorrAt(corr, m, n) ==
    LET hit == {c \in corr.cells : c[1] = m /\ c[2] = n}
    IN  IF hit = {} THEN 0 ELSE (CHOOSE c \in hit : TRUE)[3]

\* the sum of the values of a function with a finite domain
RECURSIVE SumOver(_, _)
SumOver(S, F) ==
    IF S = {} THEN 0
    ELSE LET c == CHOOSE x \in S : TRUE IN F[c] + SumOver(S \ {c}, F)

\* value > mean + factor * stddev, with mean and stddev from cv::meanStdDev
\* over all the cells: N = cells, S = their sum, SS = the sum of squares,
\* d = N*value - S, N^2 * variance = N*SS - S^2
AboveThreshold(corr, value, factor) ==
    LET N    == corr.rows * corr.cols
        val  == [c \in corr.cells |-> c[3]]
        sq   == [c \in corr.cells |-> c[3] * c[3]]
        S    == SumOver(corr.cells, val)
        SS   == SumOver(corr.cells, sq)
        d    == N * value - S
        lhs  == d * d * factor[2] * factor[2]
        rhs  == factor[1] * factor[1] * (N * SS - S * S)
    IN  IF factor[1] >= 0 THEN d > 0 /\ lhs > rhs
        ELSE d >= 0 \/ lhs < rhs

\* the cells the raster scan stops at, in scan order: interior cells above
\* the threshold and above their four neighbours
LocalMaxima(corr) ==
    LET peak == {c \in corr.cells :
                    /\ c[1] \in 1..(corr.rows - 2) /\ c[2] \in 1..(corr.cols - 2)
                    /\ AboveThreshold(corr, c[3], fiducialThreshold)
                    /\ c[3] > CorrAt(corr, c[1], c[2] + 1)
                    /\ c[3] > CorrAt(corr, c[1], c[2] - 1)
                    /\ c[3] > CorrAt(corr, c[1] + 1, c[2])
                    /\ c[3] > CorrAt(corr, c[1] - 1, c[2])}
        keys == SortAsc({c[1] * corr.cols + c[2] : c \in peak})
    IN  [i \in 1..Len(keys) |->
            [m |-> keys[i] \div corr.cols, n |-> keys[i] % corr.cols,
             v |-> CorrAt(corr, keys[i] \div corr.cols, keys[i] % corr.cols)]]

\* the body of the scan for one local maximum; found holds integer points
AddFiducial(corr, found, c) ==
    LET near  == {k \in 1..Len(found) : /\ Abs(found[k].y - c.m) < fiducialLength * 2
                                        /\ Abs(found[k].x - c.n) < fiducialLength * 2}
        first == CHOOSE k \in near : \A j \in near : k <= j
        at(k) == CorrAt(corr, found[k].y, found[k].x)
        K     == IF Len(found) < numFiducials THEN Len(found) ELSE numFiducials
        low   == {k \in 1..K : \A j \in 1..K : at(k) < at(j) \/ (at(k) = at(j) /\ k <= j)}
        minIndex == CHOOSE k \in low : TRUE
    IN  IF near # {}
        THEN IF c.v > at(first) THEN [found EXCEPT ![first] = Pt(c.n, c.m)] ELSE found
        ELSE IF Len(found) < numFiducials THEN Append(found, Pt(c.n, c.m))
        ELSE IF low # {} /\ c.v > at(minIndex)
             THEN [found EXCEPT ![minIndex] = Pt(c.n, c.m)]
             ELSE found

RECURSIVE ScanMaxima(_, _, _)
ScanMaxima(corr, found, cands) ==
    IF cands = << >> THEN found
    ELSE ScanMaxima(corr, AddFiducial(corr, found, Head(cands)), Tail(cands))

\* the centroid of the cells above the halved threshold around a fiducial,
\* moved to frame coordinates
RefineFiducial(corr, p, offset) ==
    LET rowRange == SafeRange(p.y - fiducialWidth, p.y + fiducialWidth + 1, corr.rows)
        colRange == SafeRange(p.x - fiducialWidth, p.x + fiducialWidth + 1, corr.cols)
        half     == QDiv(fiducialThreshold, QInt(2))
        nbhd     == {c \in corr.cells :
                        /\ c[1] >= rowRange.start /\ c[1] < rowRange.end
                        /\ c[2] >= colRange.start /\ c[2] < colRange.end
                        /\ AboveThreshold(corr, c[3], half)}
        wm       == [c \in nbhd |-> c[1] * c[3]]
        wn       == [c \in nbhd |-> c[2] * c[3]]
        w        == [c \in nbhd |-> c[3]]
        average  == QInt(SumOver(nbhd, w))
    IN  Pt(QAdd(QDiv(QInt(SumOver(nbhd, wn)), average), QInt(offset.x)),
           QAdd(QDiv(QInt(SumOver(nbhd, wm)), average), QInt(offset.y)))

\* the last loop: an erase is followed by k++, so the element that moved
\* into position k is not examined
RECURSIVE EraseNonFinite(_, _)
EraseNonFinite(list, k) ==
    IF k > Len(list) THEN list
    ELSE IF ~IsFinite(list[k].x) \/ ~IsFinite(list[k].y)
         THEN EraseNonFinite(SubSeq(list, 1, k - 1) \o SubSeq(list, k + 1, Len(list)), k + 1)
         ELSE EraseNonFinite(list, k + 1)

\* what FindPixelFiducials leaves in pixelFiducials
FindPixelFiducials(sImage, sOffset, k) ==
    LET correlation == matchTemplate(sImage, k)
        offset  == Pt(sOffset.x + k.cols \div 2, sOffset.y + k.rows \div 2)
        refined(found) ==
            [i \in 1..Len(found) |-> RefineFiducial(correlation, found[i], offset)]
    IN  EraseNonFinite(refined(ScanMaxima(correlation, << >>, LocalMaxima(correlation))), 1)

----------------------------------------------------------------------------
(* FindFiducialIDs and FindMapping                                         *)

\* the values of greatest frequency in data
Mode(data) ==
    LET values   == {data[i] : i \in 1..Len(data)}
        count(v) == Cardinality({i \in 1..Len(data) : data[i] = v})
    IN  {v \in values : \A u \in values : count(u) <= count(v)}

\* rotate by angle degrees; every parameter setting of the model keeps the
\* twist at a multiple of 90 degrees, where cos and sin are 0, 1 or -1
rotate(angle, point) ==
    LET quarter == (Trunc(angle) \div 90) % 4
        c == QInt(CASE quarter = 0 -> 1 [] quarter = 2 -> -1 [] OTHER -> 0)
        s == QInt(CASE quarter = 1 -> 1 [] quarter = 3 -> -1 [] OTHER -> 0)
    IN  Pt(QSub(QMul(c, point.x), QMul(s, point.y)),
           QAdd(QMul(s, point.x), QMul(c, point.y)))

\* |a - b| < tol
Within(a, b, tol) == QLt(QAbs(QSub(a, b)), tol)

\* the pairs (k, l), k < l, in the order the double loop visits them;
\* indices count from 0 as in the source
AllPairs(K) ==
    LET keys == SortAsc({p[1] * K + p[2] :
                            p \in {q \in (0..(K - 1)) \X (0..(K - 1)) : q[1] < q[2]}})
    IN  [i \in 1..Len(keys) |-> Pt(keys[i] \div K, keys[i] % K)]

\* the votes the first pass gives fiducial k from one pair and its distance
PairVotes(pair, diff, dist, k) ==
    Flatten([d \in 1..Len(dist) |->
        IF ~Within(QAbs(diff), dist[d], fiducialSpacingTol) THEN << >>
        ELSE IF QGt(diff, QInt(0))
             THEN IF k = pair.x THEN << d - 1 - 7 >>
                  ELSE IF k = pair.y THEN << d - 1 + 1 - 7 >> ELSE << >>
             ELSE IF k = pair.x THEN << d - 1 + 1 - 7 >>
                  ELSE IF k = pair.y THEN << d - 1 - 7 >> ELSE << >>])

\* had a tie been settled for the smallest of the tied values
ElectSmallest(votes, fallback) ==
    LET modes == Mode(votes)
    IN  IF modes # {} THEN CHOOSE v \in modes : \A u \in modes : v <= u
        ELSE fallback

\* the index a vote leaves: -200 on a tie, the mode, or the fallback
Elect(votes, fallback) ==
    LET modes == Mode(votes)
    IN  IF Cardinality(modes) > 1 THEN -200
        ELSE IF Cardinality(modes) = 1 THEN CHOOSE v \in modes : TRUE
        ELSE fallback

\* second pass: what a pair gives fiducial k for the index shared along the
\* pair (same) and for the index that steps along it (step, by the sign of diff)
SecondVotes(pair, ge, same, step, k) ==
    LET a == pair.x + 1
        b == pair.y + 1
    IN  [same |-> IF same[a] = -100 /\ same[b] # -100 /\ k = pair.x THEN << same[b] >>
                  ELSE IF same[a] # -100 /\ same[b] = -100 /\ k = pair.y THEN << same[a] >>
                  ELSE << >>,
         step |-> IF step[a] = -100 /\ step[b] # -100
                  THEN IF k # pair.x THEN << >>
                       ELSE IF ge THEN << step[b] - 1 >> ELSE << step[b] + 1 >>
                  ELSE IF step[a] # -100 /\ step[b] = -100
                  THEN IF k # pair.y THEN << >>
                       ELSE IF ge THEN << step[a] + 1 >> ELSE << step[a] - 1 >>
                  ELSE << >>]

\* what FindFiducialIDs leaves in rowPairs, colPairs and fiducialIDs
FindFiducialIDs(fiducials, mDist, nDist) ==
    LET K == Len(fiducials)
        rotated(rot) ==
            LET rowDiff(p) == QSub(rot[p.x + 1].y, rot[p.y + 1].y)
                colDiff(p) == QSub(rot[p.x + 1].x, rot[p.y + 1].x)
                IsCol(p) == /\ Within(QAbs(rowDiff(p)), fiducialSpacing, fiducialSpacingTol)
                            /\ QGt(QAbs(colDiff(p)), QSub(nDist[8], fiducialSpacingTol))
                            /\ QLt(QAbs(colDiff(p)), QAdd(nDist[1], fiducialSpacingTol))
                IsRow(p) == /\ ~IsCol(p)
                            /\ Within(QAbs(colDiff(p)), fiducialSpacing, fiducialSpacingTol)
                            /\ QGt(QAbs(rowDiff(p)), QSub(mDist[8], fiducialSpacingTol))
                            /\ QLt(QAbs(rowDiff(p)), QAdd(mDist[1], fiducialSpacingTol))
                paired(cPairs, rPairs) ==
                    \* the row loops use rot[pair.y].y - rot[pair.x].y
                    LET rDiff(i) == QNeg(rowDiff(rPairs[i]))
                        cDiff(i) == colDiff(cPairs[i])
                        secondPass(row1, col1) ==
                            LET fromRows(k) == [i \in 1..Len(rPairs) |->
                                    SecondVotes(rPairs[i], QGe(rDiff(i), QInt(0)), col1, row1, k)]
                                fromCols(k) == [i \in 1..Len(cPairs) |->
                                    SecondVotes(cPairs[i], QGe(cDiff(i), QInt(0)), row1, col1, k)]
                                rowVotes(k) ==
                                    Flatten([i \in 1..Len(rPairs) |-> fromRows(k)[i].step]) \o
                                    Flatten([i \in 1..Len(cPairs) |-> fromCols(k)[i].same])
                                colVotes(k) ==
                                    Flatten([i \in 1..Len(rPairs) |-> fromRows(k)[i].same]) \o
                                    Flatten([i \in 1..Len(cPairs) |-> fromCols(k)[i].step])
                            IN  [rowPairs    |-> rPairs,
                                 colPairs    |-> cPairs,
                                 \* the IDs of the first pass, the votes of the second
                                 firstIDs    |-> [k \in 1..K |-> Pt(col1[k], row1[k])],
                                 rowBags     |-> [k \in 1..K |->
                                     Flatten([i \in 1..Len(rPairs) |->
                                         PairVotes(rPairs[i], rDiff(i), mDist, k - 1)])],
                                 colBags     |-> [k \in 1..K |->
                                     Flatten([i \in 1..Len(cPairs) |->
                                         PairVotes(cPairs[i], cDiff(i), nDist, k - 1)])],
                                 rowVotes    |-> [k \in 1..K |-> rowVotes(k - 1)],
                                 colVotes    |-> [k \in 1..K |-> colVotes(k - 1)],
                                 fiducialIDs |-> [k \in 1..K |->
                                     Pt(Elect(colVotes(k - 1), col1[k]),
                                        Elect(rowVotes(k - 1), row1[k]))]]
                    IN  secondPass(
                            [k \in 1..K |-> Elect(Flatten([i \in 1..Len(rPairs) |->
                                PairVotes(rPairs[i], rDiff(i), mDist, k - 1)]), -100)],
                            [k \in 1..K |-> Elect(Flatten([i \in 1..Len(cPairs) |->
                                PairVotes(cPairs[i], cDiff(i), nDist, k - 1)]), -100)])
            IN  paired(SelectSeq(AllPairs(K), IsCol), SelectSeq(AllPairs(K), IsRow))
    IN  rotated([k \in 1..K |-> rotate(fiducialTwist, fiducials[k])])

\* an ID with a coordinate below -10 is not used
ValidID(id) == ~(id.x < -10 \/ id.y < -10)

\* had the formula of the indices >= 0 been used for every index
ScreenByOneFormula(id) ==
    Pt(6 * (45 * id.x + 3 * id.x * (id.x - 1) - 15 * id.y),
       6 * (45 * id.y + 3 * id.y * (id.y - 1) + 15 * id.x))

fiducialIDtoScreen(id) ==
    Pt(6 * ((IF id.x >= 0 THEN 45 * id.x + 3 * id.x * (id.x - 1)
             ELSE 48 * id.x - 3 * id.x * (id.x + 1)) - 15 * id.y),
       6 * ((IF id.y >= 0 THEN 45 * id.y + 3 * id.y * (id.y - 1)
             ELSE 48 * id.y - 3 * id.y * (id.y + 1)) + 15 * id.x))

\* what FindMapping leaves in mapping: intercept and slope for x, then for y
FindMapping(fiducials, ids) ==
    LET used == SortAsc({k \in 1..Len(fiducials) : ValidID(ids[k])})
        fits(fitX, fitY) == << fitX.intercept, fitX.slope, fitY.intercept, fitY.slope >>
    IN  fits(LinearFit([i \in 1..Len(used) |-> fiducials[used[i]].x],
                       [i \in 1..Len(used) |-> QInt(fiducialIDtoScreen(ids[used[i]]).x)]),
             LinearFit([i \in 1..Len(used) |-> fiducials[used[i]].y],
                       [i \in 1..Len(used) |-> QInt(fiducialIDtoScreen(ids[used[i]]).y)]))

PixelToScreen(map, pixelPoint) ==
    Pt(QAdd(map[1], QMul(map[2], pixelPoint.x)), QAdd(map[3], QMul(map[4], pixelPoint.y)))

----------------------------------------------------------------------------
(* Construction                                                            *)

Size(w, h) == [width |-> w, height |-> h]

Zeros == << QInt(0), QInt(0), QInt(0), QInt(0) >>

\* the table the constructor fills for mDistances and for nDistances
Distances(spacing) ==
    [i \in 1..14 |->
        IF i - 1 < 7 THEN QDiv(QMul(QInt(84 - (i - 1) * 6), spacing), QInt(15))
        ELSE QDiv(QMul(QInt(45 + (i - 1 - 7) * 6), spacing), QInt(15))]

DefaultInts ==
    [NUM_CHORDS_SEARCHING |-> 30, NUM_CHORDS_OPERATING |-> 10,
     MIN_LIMB_WIDTH |-> 15, LIMB_FIT_WIDTH |-> 2, SOLAR_RADIUS |-> 98,
     FIDUCIAL_LENGTH |-> 15, FIDUCIAL_WIDTH |-> 2, NUM_FIDUCIALS |-> 12]

DefaultFloats ==
    [LIMB_THRESHOLD |-> Q(1, 4), DISK_THRESHOLD |-> Q(3, 4), ERROR_LIMIT |-> QInt(50),
     RADIUS_MARGIN |-> Q(1, 4), FIDUCIAL_THRESHOLD |-> QInt(5),
     FIDUCIAL_SPACING |-> Q(78, 5), FIDUCIAL_SPACING_TOL |-> Q(3, 2),
     FIDUCIAL_TWIST |-> QInt(0)]

\* no pair under study
NoPair == [d |-> -1, voted |-> FALSE]

----------------------------------------------------------------------------
(* threadDemo.cpp: main and its three threads.  demo holds the globals     *)
(* (enable, the mutexes, frameReady, frame), the flag and the mutex that   *)
(* main names (en, en_mtx), the local frame of process_image, and the      *)
(* position of each thread.  A cv::Mat is the number of the pixel buffer   *)
(* its header points to, 0 for an empty matrix: assigning a Mat copies the *)
(* header, and copyTo writes into the destination's buffer when it already *)
(* has the size and type of the source.                                    *)

Threads == {"stream", "process", "show"}

NotStarted ==
    [enable      |-> TRUE,
     en          |-> TRUE,
     enableMutex |-> "free",
     en_mtx      |-> "free",
     frameMutex  |-> "free",
     frameReady  |-> 0,
     frame       |-> 0,        \* the buffer of the global frame
     localFrame  |-> 0,        \* the buffer of process_image's localFrame
     writing     |-> 0,        \* the buffer stream_image is writing pixels into
     reading     |-> 0,        \* the buffer process_image is reading pixels of
     taken       |-> 0,        \* history: how often the published frame was taken
     joined      |-> 0,        \* the threads main has joined
     pc          |-> [t \in Threads \cup {"main"} |-> IF t = "main" THEN "start" ELSE "idle"]]

At(t, place) == demo.pc[t] = place

\* Semaphore::increment of a one-shot signal
increment(count) == 1

\* Semaphore::decrement: throws at 0
decrement(count) == IF count = 0 THEN [thrown |-> TRUE, count |-> 0]
                    ELSE [thrown |-> FALSE, count |-> count - 1]

\* Mat::copyTo(m): m.create(size, type) keeps a buffer that fits
copyTo(m) == IF m = 0 THEN 1 ELSE m

\* enableMutex.lock() at the top of a loop
LockEnable(t) ==
    /\ At(t, "top")
    /\ demo.enableMutex = "free"
    /\ demo' = [demo EXCEPT !.enableMutex = t, !.pc[t] = "check"]

\* if(!enable) { enableMutex.unlock(); ... return; } enableMutex.unlock();
CheckEnable(t, goOn) ==
    /\ At(t, "check")
    /\ demo' = [demo EXCEPT !.enableMutex = "free",
                            !.pc[t] = IF ~demo.enable THEN "done" ELSE goOn]

\* camera.Connect(), ConfigureSnap, localFrame.create, Initialize
StreamConnect ==
    /\ At("stream", "connect")
    /\ \E connected \in BOOLEAN :
          demo' = [demo EXCEPT !.pc["stream"] = IF connected THEN "top" ELSE "done"]

StreamLockEnable == LockEnable("stream")

StreamCheckEnable == CheckEnable("stream", "snap")

\* camera.Snap(temp)
StreamSnap ==
    /\ At("stream", "snap")
    /\ demo' = [demo EXCEPT !.pc["stream"] = "lockFrame"]

\* frameMutex.lock()
StreamLockFrame ==
    /\ At("stream", "lockFrame")
    /\ demo.frameMutex = "free"
    /\ demo' = [demo EXCEPT !.frameMutex = "stream", !.pc["stream"] = "copy"]

\* localFrame.copyTo(frame): the pixels are being written
StreamCopy ==
    /\ At("stream", "copy")
    /\ demo' = [demo EXCEPT !.frame = copyTo(demo.frame), !.writing = copyTo(demo.frame),
                            !.pc["stream"] = "copying"]

\* copyTo returns: a new frame is published; frameMutex.unlock()
StreamCopied ==
    /\ At("stream", "copying")
    /\ demo' = [demo EXCEPT !.writing = 0, !.taken = 0, !.frameMutex = "free",
                            !.pc["stream"] = "signal"]

\* frameReady.increment()
StreamSignal ==
    /\ At("stream", "signal")
    /\ demo' = [demo EXCEPT !.frameReady = increment(demo.frameReady),
                            !.pc["stream"] = "wait"]

\* fine_wait(0, FRAME_PERIOD, 0, 0)
StreamWait ==
    /\ At("stream", "wait")
    /\ demo' = [demo EXCEPT !.pc["stream"] = "top"]

stream_image ==
    \/ StreamConnect
    \/ StreamLockEnable
    \/ StreamCheckEnable
    \/ StreamSnap
    \/ StreamLockFrame
    \/ StreamCopy
    \/ StreamCopied
    \/ StreamSignal
    \/ StreamWait

\* matchKernel(kernel)
ProcessStart ==
    /\ At("process", "connect")
    /\ demo' = [demo EXCEPT !.pc["process"] = "top"]

ProcessLockEnable == LockEnable("process")

ProcessCheckEnable == CheckEnable("process", "try")

\* try { frameReady.decrement(); break; } catch(const char* e) { fine_wait(0,10,0,0); }
ProcessTry ==
    /\ At("process", "try")
    /\ LET r == decrement(demo.frameReady)
       IN  demo' = [demo EXCEPT !.frameReady = r.count,
                                !.pc["process"] = IF r.thrown THEN "top" ELSE "lockFrame"]

\* frameMutex.lock()
ProcessLockFrame ==
    /\ At("process", "lockFrame")
    /\ demo.frameMutex = "free"
    /\ demo' = [demo EXCEPT !.frameMutex = "process", !.pc["process"] = "fetch"]

\* localFrame = frame.getMat(); frameMutex.unlock()
ProcessFetch ==
    /\ At("process", "fetch")
    /\ demo' = [demo EXCEPT !.localFrame = demo.frame,
                            !.taken = IF demo.taken < 2 THEN demo.taken + 1 ELSE 2,
                            !.frameMutex = "free",
                            !.pc["process"] = "chords"]

\* chordCenter(localFrame.data, ...): the pixels are being read
ProcessChords ==
    /\ At("process", "chords")
    /\ demo' = [demo EXCEPT !.reading = demo.localFrame, !.pc["process"] = "center"]

\* chordCenter returns; center is stored under centerMutex
ProcessCenter ==
    /\ At("process", "center")
    /\ demo' = [demo EXCEPT !.reading = 0, !.pc["process"] = "match"]

\* with the center inside the frame: matchFindFiducials on a sub-image of
\* localFrame, the pixels are being read
ProcessMatch ==
    /\ At("process", "match")
    /\ \E inside \in BOOLEAN :
          demo' = [demo EXCEPT !.reading = IF inside THEN demo.localFrame ELSE 0,
                               !.pc["process"] = "publish"]

\* the fiducials are stored under fiducialMutex
ProcessPublish ==
    /\ At("process", "publish")
    /\ demo' = [demo EXCEPT !.reading = 0, !.pc["process"] = "top"]

process_image ==
    \/ ProcessStart
    \/ ProcessLockEnable
    \/ ProcessCheckEnable
    \/ ProcessTry
    \/ ProcessLockFrame
    \/ ProcessFetch
    \/ ProcessChords
    \/ ProcessCenter
    \/ ProcessMatch
    \/ ProcessPublish

ShowStart ==
    /\ At("show", "connect")
    /\ demo' = [demo EXCEPT !.pc["show"] = "top"]

ShowLockEnable == LockEnable("show")

ShowCheckEnable == CheckEnable("show", "top")

display_image ==
    \/ ShowStart
    \/ ShowLockEnable
    \/ ShowCheckEnable

\* std::thread stream(stream_image); std::thread process(process_image);
\* std::thread show(display_image);
MainStart ==
    /\ At("main", "start")
    /\ demo' = [demo EXCEPT !.pc = [t \in Threads \cup {"main"} |->
                                       IF t = "main" THEN "wait" ELSE "connect"]]

\* fine_wait(30, 0, 0, 0)
MainWait ==
    /\ At("main", "wait")
    /\ demo' = [demo EXCEPT !.pc["main"] = "lock"]

\* en_mtx.lock()
MainLock ==
    /\ At("main", "lock")
    /\ demo.en_mtx = "free"
    /\ demo' = [demo EXCEPT !.en_mtx = "main", !.pc["main"] = "clear"]

\* en = 0; en_mtx.unlock()
MainClear ==
    /\ At("main", "clear")
    /\ demo' = [demo EXCEPT !.en = FALSE, !.en_mtx = "free", !.pc["main"] = "join"]

\* stream.join(); process.join(); show.join(), one after the other
MainJoin ==
    /\ At("main", "join")
    /\ LET next == CASE demo.joined = 0 -> "stream"
                     [] demo.joined = 1 -> "process"
                     [] OTHER -> "show"
       IN  /\ At(next, "done")
           /\ demo' = [demo EXCEPT !.joined = demo.joined + 1,
                                   !.pc["main"] = IF demo.joined = 2 THEN "done" ELSE "join"]

main ==
    \/ MainStart
    \/ MainWait
    \/ MainLock
    \/ MainClear
    \/ MainJoin

\* a step of the program leaves the Aspect object alone
Thread(step) ==
    /\ step
    /\ UNCHANGED << object, lattice >>

NextDemo ==
    \/ Thread(main)
    \/ Thread(stream_image)
    \/ Thread(process_image)
    \/ Thread(display_image)

Init ==
    /\ frameMin = 255
    /\ frameMax = 0
    /\ ints = DefaultInts
    /\ floats = DefaultFloats
    /\ frame = EmptyFrame
    /\ frameSize = Size(0, 0)
    /\ solarImage = WholeFrame(EmptyFrame)
    /\ solarImageSize = Size(0, 0)
    /\ solarImageOffset = Pt(0, 0)
    /\ pixelCenter = Pt(QInt(-1), QInt(-1))
    /\ pixelError = Pt(QInt(0), QInt(0))
    /\ kernel = GenerateKernel(DefaultInts.FIDUCIAL_LENGTH, DefaultInts.FIDUCIAL_WIDTH)
    /\ mDistances = Distances(DefaultFloats.FIDUCIAL_SPACING)
    /\ nDistances = Distances(DefaultFloats.FIDUCIAL_SPACING)
    /\ limbCrossings = << >>
    /\ slopes = << >>
    /\ pixelFiducials = << >>
    /\ fiducialIDs = << >>
    /\ rowPairs = << >>
    /\ colPairs = << >>
    /\ mapping = Zeros
    /\ state = "STALE_DATA"
    /\ lastOp = "Aspect"
    /\ called = << >>
    /\ runs = 0
    /\ passed = [ints |-> DefaultInts, floats |-> DefaultFloats]
    /\ chordArg = Strip(<< >>)
    /\ crossingsOut = NoCrossings
    /\ demo = NotStarted
    /\ lattice = NoPair
    /\ calls = 0

SpecDemo == Init /\ [][NextDemo]_vars

\* a thread that can take a step again and again takes one in the end: no
\* thread is left out by the scheduler or passed over at a mutex for ever
SpecDemoFair ==
    /\ SpecDemo
    /\ SF_vars(Thread(main))
    /\ SF_vars(Thread(stream_image))
    /\ SF_vars(Thread(process_image))
    /\ SF_vars(Thread(display_image))

----------------------------------------------------------------------------
(* The lattice of the fiducials: the table of distances, the votes of the  *)
(* two passes and fiducialIDtoScreen applied to one pair of neighbours.    *)

\* the pair of the table entry d, along the rows or along the columns, with
\* the sign of the difference that the pair loop computes, on the lattice
\* line `other` of the other axis
PairsToVote ==
    { [d |-> d, rows |-> rows, positive |-> positive, other |-> other, voted |-> FALSE] :
        d \in 0..13, rows \in BOOLEAN, positive \in BOOLEAN, other \in {-3, 0, 2} }

InitLattice ==
    /\ frameMin = 255
    /\ frameMax = 0
    /\ ints = DefaultInts
    /\ floats = DefaultFloats
    /\ frame = EmptyFrame
    /\ frameSize = Size(0, 0)
    /\ solarImage = WholeFrame(EmptyFrame)
    /\ solarImageSize = Size(0, 0)
    /\ solarImageOffset = Pt(0, 0)
    /\ pixelCenter = Pt(QInt(-1), QInt(-1))
    /\ pixelError = Pt(QInt(0), QInt(0))
    /\ kernel = GenerateKernel(DefaultInts.FIDUCIAL_LENGTH, DefaultInts.FIDUCIAL_WIDTH)
    /\ mDistances = Distances(DefaultFloats.FIDUCIAL_SPACING)
    /\ nDistances = Distances(DefaultFloats.FIDUCIAL_SPACING)
    /\ limbCrossings = << >>
    /\ slopes = << >>
    /\ pixelFiducials = << >>
    /\ fiducialIDs = << >>
    /\ rowPairs = << >>
    /\ colPairs = << >>
    /\ mapping = Zeros
    /\ state = "STALE_DATA"
    /\ lastOp = "Aspect"
    /\ called = << >>
    /\ runs = 0
    /\ passed = [ints |-> DefaultInts, floats |-> DefaultFloats]
    /\ chordArg = Strip(<< >>)
    /\ crossingsOut = NoCrossings
    /\ demo = NotStarted
    /\ lattice \in PairsToVote
    /\ calls = 0

\* the votes of the first pass for the pair (0, 1), the votes the second
\* pass gives each member from the first-pass index of the other, and the
\* screen coordinates of the two indices voted
LatticeStep ==
    /\ ~lattice.voted
    /\ lattice.d >= 0
    /\ LET dist  == IF lattice.rows THEN mDistances ELSE nDistances
           diff  == IF lattice.positive THEN dist[lattice.d + 1] ELSE QNeg(dist[lattice.d + 1])
           pair  == Pt(0, 1)
           first == [k \in 1..2 |-> PairVotes(pair, diff, dist, k - 1)]
           none  == [k \in 1..2 |-> lattice.other]
           given(k) == [j \in 1..2 |-> IF j = k /\ Len(first[k]) = 1 THEN first[k][1] ELSE -100]
           second == [k \in 1..2 |->
                        SecondVotes(pair, QGe(diff, QInt(0)), none, given(3 - k), k - 1).step]
           id(v) == IF lattice.rows THEN Pt(lattice.other, v) ELSE Pt(v, lattice.other)
       IN  lattice' = [d |-> lattice.d, rows |-> lattice.rows, positive |-> lattice.positive,
                       other |-> lattice.other, voted |-> TRUE,
                       first |-> first, second |-> second,
                       screen |-> [k \in 1..2 |->
                                      IF Len(first[k]) = 1 THEN fiducialIDtoScreen(id(first[k][1]))
                                      ELSE Pt(0, 0)]]
    /\ UNCHANGED << object, demo >>

NextLattice == LatticeStep

SpecLattice == InitLattice /\ [][NextLattice]_vars

----------------------------------------------------------------------------
(* Run and FiducialRun                                                     *)

\* had a "too few" gate been count <= least
NotMoreThan(count, least) == count <= least

\* the "too few" gates: limbCrossings.size() < 4, pixelFiducials.size() < 3,
\* validIDs < 3
TooFew(count, least) == count < least

\* pixelError.x > errorLimit || pixelError.y > errorLimit || !isfinite(...);
\* err holds the squares of the standard deviations
ErrorTooLarge(err, limit) ==
    LET above(v) == IF QLt(limit, QInt(0)) THEN IsFinite(v)
                    ELSE QGt(v, QMul(limit, limit))
    IN  above(err.x) \/ above(err.y) \/ ~IsFinite(err.x) \/ ~IsFinite(err.y)

\* the members a run assigns, as they are when it is called
Members ==
    [state |-> state, frameMin |-> frameMin, frameMax |-> frameMax,
     pixelCenter |-> pixelCenter, pixelError |-> pixelError,
     solarImage |-> solarImage, solarImageSize |-> solarImageSize,
     solarImageOffset |-> solarImageOffset,
     limbCrossings |-> limbCrossings, slopes |-> slopes,
     pixelFiducials |-> pixelFiducials, fiducialIDs |-> fiducialIDs,
     rowPairs |-> rowPairs, colPairs |-> colPairs,
     mapping |-> mapping, called |-> called]

\* had mapping not been cleared and resized
ClearedButMapping ==
    [Members EXCEPT !.limbCrossings = << >>, !.slopes = << >>,
                    !.pixelFiducials = << >>, !.fiducialIDs = << >>,
                    !.called = << >>]

\* had fiducialIDs not been cleared
ClearedButIDs ==
    [Members EXCEPT !.limbCrossings = << >>, !.slopes = << >>,
                    !.pixelFiducials = << >>, !.mapping = Zeros,
                    !.called = << >>]

\* The members as the first statements of Run and FiducialRun leave them.
Cleared ==
    [Members EXCEPT !.limbCrossings = << >>, !.slopes = << >>,
                    !.pixelFiducials = << >>, !.fiducialIDs = << >>,
                    !.mapping = Zeros, !.called = << >>]

\* the members after calcMinMax(frame, frameMin, frameMax)
Measured(s) ==
    [s EXCEPT !.frameMin = Buffer[frame].minMax.min,
              !.frameMax = Buffer[frame].minMax.max,
              !.called = Append(@, "calcMinMax")]

\* had the second gate been max - min <= 32
RangeGateOffByOne(min, max) ==
    IF min >= max THEN "MIN_MAX_BAD"
    ELSE IF max - min <= 32 THEN "DYNAMIC_RANGE_LOW"
    ELSE ""

\* had the gates tested the members as the run before left them
RangeGateOnMembers(min, max) ==
    IF frameMin >= frameMax THEN "MIN_MAX_BAD"
    ELSE IF frameMax - frameMin < 32 THEN "DYNAMIC_RANGE_LOW"
    ELSE ""

\* the state a range gate returns with; "" when both gates are passed
RangeGate(min, max) ==
    IF min >= max THEN "MIN_MAX_BAD"
    ELSE IF max - min < 32 THEN "DYNAMIC_RANGE_LOW"
    ELSE ""

\* had the gate after FindMapping been live and tested the fits: a mapping
\* with an entry that is not finite, or whose two slopes differ in size by
\* more than a tenth, is ill-conditioned
UnevenMapping(map) ==
    \/ \E i \in 1..Len(map) : ~IsFinite(map[i])
    \/ QGt(QAbs(QSub(QAbs(map[2]), QAbs(map[4]))), QDiv(QAbs(map[4]), QInt(10)))

\* the condition of the gate after FindMapping: if (/*ILL CONDITIONED*/ false)
IllConditioned(map) == FALSE

\* FindFiducialIDs, the count of valid IDs, FindMapping
IDStage(s) ==
    LET mapped(s2) ==
            IF IllConditioned(s2.mapping)
            THEN [s2 EXCEPT !.state = "MAPPING_ILL_CONDITIONED"]
            ELSE [s2 EXCEPT !.state = "NO_ERROR"]
        identified(ids) ==
            LET s1 == [s EXCEPT !.rowPairs = ids.rowPairs, !.colPairs = ids.colPairs,
                                !.fiducialIDs = ids.fiducialIDs,
                                !.called = Append(@, "FindFiducialIDs")]
                validIDs == Cardinality({k \in 1..Len(ids.fiducialIDs) :
                                            ValidID(ids.fiducialIDs[k])})
            IN  IF validIDs = 0 THEN [s1 EXCEPT !.state = "NO_IDS"]
                ELSE IF TooFew(validIDs, 3) THEN [s1 EXCEPT !.state = "FEW_IDS"]
                ELSE mapped([s1 EXCEPT
                                !.mapping = FindMapping(s.pixelFiducials, ids.fiducialIDs),
                                !.called = Append(@, "FindMapping")])
    IN  identified(FindFiducialIDs(s.pixelFiducials, mDistances, nDistances))

\* solarImageOffset = cv::Point(colRange.start, rowRange.start)
ImageOffset(colRange, rowRange) == Pt(colRange.start, rowRange.start)

\* from the check of the solar image on; colRange, rowRange are the ranges
\* the image was cut with
ImageStage(s, colRange, rowRange) ==
    LET s1   == [s EXCEPT !.solarImageSize = Size(s.solarImage.cols, s.solarImage.rows)]
        s2   == [s1 EXCEPT !.solarImageOffset = ImageOffset(colRange, rowRange)]
        size == s1.solarImageSize
        off  == s2.solarImageOffset
        located(found) ==
            LET s3 == [s2 EXCEPT !.pixelFiducials = found,
                                 !.called = Append(@, "FindPixelFiducials")]
            IN  IF Len(found) = 0 THEN [s3 EXCEPT !.state = "NO_FIDUCIALS"]
                ELSE IF TooFew(Len(found), 3) THEN [s3 EXCEPT !.state = "FEW_FIDUCIALS"]
                ELSE IDStage(s3)
    IN  IF MatEmpty(s.solarImage) THEN [s EXCEPT !.state = "SOLAR_IMAGE_EMPTY"]
        ELSE IF \/ size.width < Trunc(fiducialSpacing) + 2 * fiducialLength
                \/ size.height < Trunc(fiducialSpacing) + 2 * fiducialLength
        THEN [s1 EXCEPT !.state = "SOLAR_IMAGE_SMALL"]
        ELSE IF \/ off.x < 0 \/ off.x >= frameSize.width - size.width + 1
                \/ off.y < 0 \/ off.y >= frameSize.height - size.height + 1
        THEN [s2 EXCEPT !.state = "SOLAR_IMAGE_OFFSET_OUT_OF_BOUNDS"]
        ELSE located(FindPixelFiducials(s2.solarImage, s2.solarImageOffset, kernel))

\* a limb or center gate: state = code; pixelCenter = cv::Point2f(-1,-1)
StoppedAtCenter(s, code) ==
    [s EXCEPT !.state = code, !.pixelCenter = Pt(QInt(-1), QInt(-1))]

\* FindPixelCenter, the limb and center gates, and the cut of the solar image
CenterStage(s, g) ==
    LET subimageSize == Trunc(QMul(QInt(solarRadius), QAdd(QInt(1), radiusMargin)))
        cut(s1, rowRange, colRange) ==
            ImageStage([s1 EXCEPT !.solarImage = View(frame, rowRange.start, rowRange.end,
                                                      colRange.start, colRange.end)],
                       colRange, rowRange)
        centered(c) ==
            LET s1 == [s EXCEPT !.pixelCenter = c.pixelCenter, !.pixelError = c.pixelError,
                                !.limbCrossings = c.limbCrossings, !.slopes = c.slopes,
                                !.called = Append(@, "FindPixelCenter")]
            IN  IF Len(c.limbCrossings) = 0
                THEN StoppedAtCenter(s1, "NO_LIMB_CROSSINGS")
                ELSE IF TooFew(Len(c.limbCrossings), 4)
                THEN StoppedAtCenter(s1, "FEW_LIMB_CROSSINGS")
                ELSE IF OutOfFrame(c.pixelCenter, frameSize)
                THEN StoppedAtCenter(s1, "CENTER_OUT_OF_BOUNDS")
                ELSE IF ErrorTooLarge(c.pixelError, errorLimit)
                THEN StoppedAtCenter(s1, "CENTER_ERROR_LARGE")
                ELSE cut(s1,
                         SafeRange(Trunc(QSub(c.pixelCenter.y, QInt(subimageSize))),
                                   Trunc(QAdd(c.pixelCenter.y, QInt(subimageSize))),
                                   frameSize.height),
                         SafeRange(Trunc(QSub(c.pixelCenter.x, QInt(subimageSize))),
                                   Trunc(QAdd(c.pixelCenter.x, QInt(subimageSize))),
                                   frameSize.width))
    IN  centered(FindPixelCenter(s.pixelCenter, s.solarImage, s.solarImageOffset,
                                 frame, frameSize, s.frameMin, s.frameMax, g))

\* the members when Run returns; g is the byte a read past the end of the
\* frame's buffer yields
RunResult(g) ==
    LET s == Measured(Cleared)
    IN  IF state = "FRAME_EMPTY" THEN Cleared
        ELSE IF RangeGate(s.frameMin, s.frameMax) # ""
        THEN [s EXCEPT !.state = RangeGate(s.frameMin, s.frameMax)]
        ELSE CenterStage(s, g)

\* had FiducialRun found the center as Run does
FiducialRunWithCenter == RunResult(0)

\* the members when FiducialRun returns; the ranges are cv::Range(), [0, 0)
FiducialRunResult ==
    LET s == Measured(Cleared)
    IN  IF state = "FRAME_EMPTY" THEN Cleared
        ELSE IF RangeGate(s.frameMin, s.frameMax) # ""
        THEN [s EXCEPT !.state = RangeGate(s.frameMin, s.frameMax)]
        ELSE ImageStage([s EXCEPT !.solarImage = WholeFrame(frame)],
                        [start |-> 0, end |-> 0], [start |-> 0, end |-> 0])

\* assign the members from a result
Store(r) ==
    /\ state' = r.state
    /\ frameMin' = r.frameMin
    /\ frameMax' = r.frameMax
    /\ pixelCenter' = r.pixelCenter
    /\ pixelError' = r.pixelError
    /\ solarImage' = r.solarImage
    /\ solarImageSize' = r.solarImageSize
    /\ solarImageOffset' = r.solarImageOffset
    /\ limbCrossings' = r.limbCrossings
    /\ slopes' = r.slopes
    /\ pixelFiducials' = r.pixelFiducials
    /\ fiducialIDs' = r.fiducialIDs
    /\ rowPairs' = r.rowPairs
    /\ colPairs' = r.colPairs
    /\ mapping' = r.mapping
    /\ called' = r.called

----------------------------------------------------------------------------
(* The parameter settings the model makes, and the bytes a read outside   *)
(* the frame's buffer may yield.                                           *)

IntSettings == { <<"SOLAR_RADIUS", 28>> }

FloatSettings == { <<"ERROR_LIMIT", QInt(-1)>> }

Garbage == {0, 255}

\* the longest sequence of calls explored
MaxCalls == 4

----------------------------------------------------------------------------
(* The public methods                                                      *)

LoadFrame(inputFrame) ==
    /\ IF inputFrame.w = 0 \/ inputFrame.h = 0
       THEN /\ state' = "FRAME_EMPTY"
            /\ UNCHANGED << frame, frameSize, called >>
       ELSE /\ frame' = inputFrame
            /\ frameSize' = Size(inputFrame.w, inputFrame.h)
            /\ state' = "NO_ERROR"
            /\ called' = << >>
    /\ lastOp' = "LoadFrame"
    /\ runs' = 0
    /\ UNCHANGED << frameMin, frameMax, ints, floats, kernel, mDistances, nDistances,
                    pixelCenter, pixelError, solarImage, solarImageSize,
                    solarImageOffset, limbCrossings, slopes, pixelFiducials,
                    fiducialIDs, rowPairs, colPairs, mapping, passed >>

Run ==
    /\ \E g \in Garbage : Store(RunResult(g))
    /\ lastOp' = "Run"
    /\ runs' = IF lastOp = "Run" THEN 2 ELSE 1
    /\ UNCHANGED << frame, frameSize, ints, floats, kernel, mDistances, nDistances,
                    passed >>

FiducialRun ==
    /\ Store(FiducialRunResult)
    /\ lastOp' = "FiducialRun"
    /\ runs' = 0
    /\ UNCHANGED << frame, frameSize, ints, floats, kernel, mDistances, nDistances,
                    passed >>

Unprocessed ==
    << state, frame, frameSize, frameMin, frameMax, kernel, mDistances, nDistances,
       pixelCenter, pixelError, solarImage, solarImageSize, solarImageOffset,
       limbCrossings, slopes, pixelFiducials, fiducialIDs, rowPairs, colPairs,
       mapping, called >>

\* had SetInteger kept minLimbWidth equal to fiducialLength, as the
\* constructor sets it
SetIntegerLengthAndWidth(variable, value) ==
    /\ ints' = IF variable = "FIDUCIAL_LENGTH"
               THEN [ints EXCEPT ![variable] = value, !["MIN_LIMB_WIDTH"] = value]
               ELSE [ints EXCEPT ![variable] = value]
    /\ passed' = [passed EXCEPT !.ints[variable] = value]
    /\ lastOp' = "SetInteger"
    /\ runs' = 0
    /\ UNCHANGED << floats, Unprocessed >>

SetInteger(variable, value) ==
    /\ ints' = [ints EXCEPT ![variable] = value]
    /\ passed' = [passed EXCEPT !.ints[variable] = value]
    /\ lastOp' = "SetInteger"
    /\ runs' = 0
    /\ UNCHANGED << floats, Unprocessed >>

SetFloat(variable, value) ==
    /\ floats' = [floats EXCEPT ![variable] = value]
    /\ passed' = [passed EXCEPT !.floats[variable] = value]
    /\ lastOp' = "SetFloat"
    /\ runs' = 0
    /\ UNCHANGED << ints, Unprocessed >>

\* every public method is one call
Call(method) ==
    /\ calls < MaxCalls
    /\ calls' = calls + 1
    /\ method
    /\ UNCHANGED << chordArg, crossingsOut, demo, lattice >>

Next ==
    \/ \E f \in Frames : Call(LoadFrame(f))
    \/ Call(Run)
    \/ Call(FiducialRun)
    \/ \E p \in IntSettings : Call(SetInteger(p[1], p[2]))
    \/ \E p \in FloatSettings : Call(SetFloat(p[1], p[2]))

Spec == Init /\ [][Next]_vars

----------------------------------------------------------------------------
(* The object under every parameter setting: each of the 16 parameters is  *)
(* set to a value other than its default, on frames small enough to run    *)
(* under all of them.                                                      *)

AllIntSettings ==
    { <<"NUM_CHORDS_SEARCHING", 12>>, <<"NUM_CHORDS_OPERATING", 6>>,
      <<"MIN_LIMB_WIDTH", 10>>, <<"LIMB_FIT_WIDTH", 1>>, <<"SOLAR_RADIUS", 14>>,
      <<"FIDUCIAL_LENGTH", 13>>, <<"FIDUCIAL_WIDTH", 3>>, <<"NUM_FIDUCIALS", 9>> }

AllFloatSettings ==
    { <<"LIMB_THRESHOLD", Q(1, 5)>>, <<"DISK_THRESHOLD", Q(4, 5)>>,
      <<"ERROR_LIMIT", QInt(40)>>, <<"RADIUS_MARGIN", Q(1, 2)>>,
      <<"FIDUCIAL_THRESHOLD", QInt(4)>>, <<"FIDUCIAL_SPACING", QInt(16)>>,
      <<"FIDUCIAL_SPACING_TOL", QInt(2)>>, <<"FIDUCIAL_TWIST", QInt(180)>> }

ConfigFrames == { Spot, SmallSun, Range31 }

NextConfig ==
    \/ \E f \in ConfigFrames : Call(LoadFrame(f))
    \/ Call(Run)
    \/ Call(FiducialRun)
    \/ \E p \in AllIntSettings : Call(SetInteger(p[1], p[2]))
    \/ \E p \in AllFloatSettings : Call(SetFloat(p[1], p[2]))

SpecConfig == Init /\ [][NextConfig]_vars

----------------------------------------------------------------------------
(* calcMinMax on its own: an object with a frame loaded, and the call of   *)
(* calcMinMax that Run and FiducialRun make on it.                         *)

\* frames of 1 to 400 pixels with 1 to 35 pixels of a second intensity
HistFrames ==
    { Frame(d[1], d[2], v[1], v[2], 0, 0, rad, {}) :
        d \in { <<1, 1>>, <<2, 1>>, <<10, 10>>, <<20, 10>>, <<25, 16>> },
        v \in { <<10, 200>>, <<200, 10>>, <<0, 255>>, <<128, 128>> },
        rad \in {0, 1, 2, 5} }

InitMinMax ==
    /\ frame \in HistFrames
    /\ frameSize = Size(frame.w, frame.h)
    /\ state = "NO_ERROR"
    /\ lastOp = "LoadFrame"
    /\ calls = 1
    /\ frameMin = 255
    /\ frameMax = 0
    /\ ints = DefaultInts
    /\ floats = DefaultFloats
    /\ solarImage = WholeFrame(EmptyFrame)
    /\ solarImageSize = Size(0, 0)
    /\ solarImageOffset = Pt(0, 0)
    /\ pixelCenter = Pt(QInt(-1), QInt(-1))
    /\ pixelError = Pt(QInt(0), QInt(0))
    /\ kernel = GenerateKernel(DefaultInts.FIDUCIAL_LENGTH, DefaultInts.FIDUCIAL_WIDTH)
    /\ mDistances = Distances(DefaultFloats.FIDUCIAL_SPACING)
    /\ nDistances = Distances(DefaultFloats.FIDUCIAL_SPACING)
    /\ limbCrossings = << >>
    /\ slopes = << >>
    /\ pixelFiducials = << >>
    /\ fiducialIDs = << >>
    /\ rowPairs = << >>
    /\ colPairs = << >>
    /\ mapping = Zeros
    /\ called = << >>
    /\ runs = 0
    /\ passed = [ints |-> DefaultInts, floats |-> DefaultFloats]
    /\ chordArg = Strip(<< >>)
    /\ crossingsOut = NoCrossings
    /\ demo = NotStarted
    /\ lattice = NoPair

\* calcMinMax(frame, min, max); frameMin = min; frameMax = max
MinMaxStep ==
    LET stored(m) ==
            /\ frameMin' = m.min
            /\ frameMax' = m.max
    IN  /\ lastOp = "LoadFrame"
        /\ stored(calcMinMax(frame))
        /\ lastOp' = "calcMinMax"
        /\ called' = << "calcMinMax" >>
        /\ calls' = calls + 1
        /\ UNCHANGED << state, frame, frameSize, ints, floats, kernel, mDistances,
                        nDistances, pixelCenter, pixelError, solarImage, solarImageSize,
                        solarImageOffset, limbCrossings, slopes, pixelFiducials,
                        fiducialIDs, rowPairs, colPairs, mapping, runs, passed,
                        chordArg, crossingsOut, demo, lattice >>

NextMinMax == MinMaxStep

SpecMinMax == InitMinMax /\ [][NextMinMax]_vars

----------------------------------------------------------------------------
(* Aspect Parameter Get functions                                          *)

GetFloat(variable) ==
    CASE variable = "LIMB_THRESHOLD" -> limbThreshold
      [] variable = "DISK_THRESHOLD" -> diskThreshold
      [] variable = "ERROR_LIMIT" -> errorLimit
      [] variable = "RADIUS_MARGIN" -> radiusMargin
      [] variable = "FIDUCIAL_THRESHOLD" -> fiducialThreshold
      [] variable = "FIDUCIAL_SPACING" -> fiducialSpacing
      [] variable = "FIDUCIAL_SPACING_TOL" -> fiducialSpacingTol
      [] variable = "FIDUCIAL_TWIST" -> fiducialTwist
      [] OTHER -> QInt(0)

GetInteger(variable) ==
    CASE variable = "NUM_CHORDS_SEARCHING" -> initialNumChords
      [] variable = "NUM_CHORDS_OPERATING" -> chordsPerAxis
      [] variable = "MIN_LIMB_WIDTH" -> minLimbWidth
      [] variable = "LIMB_FIT_WIDTH" -> limbFitWidth
      [] variable = "SOLAR_RADIUS" -> solarRadius
      [] variable = "FIDUCIAL_LENGTH" -> fiducialLength
      [] variable = "FIDUCIAL_WIDTH" -> fiducialWidth
      [] variable = "NUM_FIDUCIALS" -> numFiducials
      [] OTHER -> 0

----------------------------------------------------------------------------
(* Data product Get functions: the code returned and, with NO_ERROR, the   *)
(* data copied out.                                                        *)

GetPixelMinMax ==
    IF Below(state, "FRAME_EMPTY")
    THEN [code |-> "NO_ERROR", min |-> frameMin, max |-> frameMax]
    ELSE [code |-> state]

GetPixelCrossings ==
    IF Below(state, "LIMB_ERROR")
    THEN [code |-> "NO_ERROR", crossings |-> limbCrossings]
    ELSE [code |-> state]

GetPixelCenter ==
    IF Below(state, "CENTER_ERROR")
    THEN [code |-> "NO_ERROR", center |-> pixelCenter]
    ELSE [code |-> state]

GetPixelError ==
    IF Below(state, "CENTER_ERROR")
    THEN [code |-> "NO_ERROR", error |-> pixelError]
    ELSE [code |-> state]

GetPixelFiducials ==
    IF Below(state, "FIDUCIAL_ERROR")
    THEN [code |-> "NO_ERROR", fiducials |-> pixelFiducials]
    ELSE [code |-> state]

GetFiducialPairs ==
    IF Below(state, "ID_ERROR")
    THEN [code |-> "NO_ERROR", rows |-> rowPairs, cols |-> colPairs]
    ELSE [code |-> state]

GetFiducialIDs ==
    IF Below(state, "ID_ERROR")
    THEN [code |-> "NO_ERROR", IDs |-> fiducialIDs]
    ELSE [code |-> state]

GetMapping ==
    IF Below(state, "MAPPING_ERROR")
    THEN [code |-> "NO_ERROR", map |-> mapping]
    ELSE [code |-> state]

GetScreenCenter ==
    IF Below(state, "MAPPING_ERROR")
    THEN [code |-> "NO_ERROR", center |-> PixelToScreen(mapping, pixelCenter)]
    ELSE [code |-> state]

GetScreenFiducials ==
    IF Below(state, "MAPPING_ERROR")
    THEN [code |-> "NO_ERROR",
          fiducials |-> [k \in 1..Len(pixelFiducials) |->
                            PixelToScreen(mapping, pixelFiducials[k])]]
    ELSE [code |-> state]

----------------------------------------------------------------------------
(* Properties                                                              *)

\* the code each getter returns
Returned ==
    [GetPixelMinMax |-> GetPixelMinMax.code, GetPixelCrossings |-> GetPixelCrossings.code,
     GetPixelCenter |-> GetPixelCenter.code, GetPixelError |-> GetPixelError.code,
     GetPixelFiducials |-> GetPixelFiducials.code,
     GetFiducialPairs |-> GetFiducialPairs.code, GetFiducialIDs |-> GetFiducialIDs.code,
     GetMapping |-> GetMapping.code, GetScreenCenter |-> GetScreenCenter.code,
     GetScreenFiducials |-> GetScreenFiducials.code]

\* the stage of a run that produces what each getter copies out
ProducedBy ==
    [GetPixelMinMax |-> "calcMinMax", GetPixelCrossings |-> "FindPixelCenter",
     GetPixelCenter |-> "FindPixelCenter", GetPixelError |-> "FindPixelCenter",
     GetPixelFiducials |-> "FindPixelFiducials",
     GetFiducialPairs |-> "FindFiducialIDs", GetFiducialIDs |-> "FindFiducialIDs",
     GetMapping |-> "FindMapping", GetScreenCenter |-> "FindMapping",
     GetScreenFiducials |-> "FindMapping"]

\* the stage was called by the last run on the loaded frame
Ran(stage) == \E i \in 1..Len(called) : called[i] = stage

AfterRun == lastOp = "Run"

AfterAnyRun == lastOp \in {"Run", "FiducialRun"}

\* a step that is a call of Run
RunStep == calls' # calls /\ lastOp' = "Run"

\* the states a run ends in, by how far it went
BeforeCenter == {"FRAME_EMPTY", "MIN_MAX_BAD", "DYNAMIC_RANGE_LOW"}

PastCenter ==
    {"SOLAR_IMAGE_EMPTY", "SOLAR_IMAGE_SMALL", "SOLAR_IMAGE_OFFSET_OUT_OF_BOUNDS",
     "NO_FIDUCIALS", "FEW_FIDUCIALS", "NO_IDS", "FEW_IDS", "NO_ERROR"}

CenterIsSentinel == pixelCenter = Pt(QInt(-1), QInt(-1))

CenterInFrame == ~OutOfFrame(pixelCenter, Size(frame.w, frame.h))

\* C1: a getter returns NO_ERROR, and with it its data, only if the last run
\* on the loaded frame called the stage that produces the data; after a
\* LoadFrame with no run yet every getter returns the state.  Stated for the
\* state NO_ERROR, which is below every marker the getters compare with
\* whatever the order of the other enumerators.
GettersServeOnlyProducedData ==
    state = "NO_ERROR" =>
        \A getter \in DOMAIN Returned :
            Returned[getter] = "NO_ERROR" => Ran(ProducedBy[getter])

\* C2: when Run returns in a state of a run that got past the
\* center gates, pixelCenter is finite and inside the loaded frame; in every
\* other state it is the sentinel (-1, -1).
CenterValidOrSentinel ==
    AfterRun => IF state \in PastCenter THEN CenterInFrame ELSE CenterIsSentinel

\* C3: limbCrossings holds complete pairs: its size is even and the two
\* crossings of a pair lie on one chord.
CrossingsInPairs ==
    /\ Len(limbCrossings) % 2 = 0
    /\ \A i \in 1..(Len(limbCrossings) \div 2) :
          \/ limbCrossings[2 * i - 1].x = limbCrossings[2 * i].x
          \/ limbCrossings[2 * i - 1].y = limbCrossings[2 * i].y

\* C3 witness: a run has saved a chord whose second crossing is synthesized
\* at the end of the strip
PairWithVirtualEnd ==
    /\ AfterAnyRun
    /\ \E i \in 1..Len(limbCrossings) : limbCrossings[i].y = QInt(frame.h)

\* C4 as stated: after Run every crossing has both coordinates in
\* [0, dimension) of the frame.
CrossingsInsideFrame ==
    AfterRun =>
        \A i \in 1..Len(limbCrossings) :
            /\ QGe(limbCrossings[i].x, QInt(0)) /\ QLt(limbCrossings[i].x, QInt(frame.w))
            /\ QGe(limbCrossings[i].y, QInt(0)) /\ QLt(limbCrossings[i].y, QInt(frame.h))

\* a coordinate on a strip of K pixels: fitted inside [0, K], or the
\* synthesized -1
OnStrip(c, K) == c = QInt(-1) \/ (QGe(c, QInt(0)) /\ QLe(c, QInt(K)))

\* C4 amended: relative to the image Run searched (the whole frame, or the
\* solar image of the run before at its offset), every coordinate of every
\* crossing is -1 or lies in [0, K], K the extent of that image on the axis;
\* the synthesized crossings are stored as -1 and K.
CrossingsOnSearchedImage ==
    [][RunStep =>
        LET search == OutOfFrame(pixelCenter, frameSize) \/ MatEmpty(solarImage)
            cols   == IF search THEN frame.w ELSE solarImage.cols
            rows   == IF search THEN frame.h ELSE solarImage.rows
            dx     == IF search THEN 0 ELSE solarImageOffset.x
            dy     == IF search THEN 0 ELSE solarImageOffset.y
        IN  \A i \in 1..Len(limbCrossings') :
                /\ OnStrip(QSub(limbCrossings'[i].x, QInt(dx)), cols)
                /\ OnStrip(QSub(limbCrossings'[i].y, QInt(dy)), rows)]_vars

\* C4 witness: Run has saved a crossing synthesized at the start of a row
CrossingAtMinusOne ==
    /\ AfterRun
    /\ \E i \in 1..Len(limbCrossings) : limbCrossings[i].x = QInt(-1)

\* solarImageOffset + solarImageSize lies inside the loaded frame
ImageInsideFrame ==
    /\ 0 <= solarImageOffset.x /\ solarImageOffset.x + solarImageSize.width <= frame.w
    /\ 0 <= solarImageOffset.y /\ solarImageOffset.y + solarImageSize.height <= frame.h

\* C5: whenever Run or FiducialRun returns, in any state, the
\* rectangle solarImageOffset + solarImageSize is inside the loaded frame.
ImageAlwaysInsideFrame == AfterAnyRun => ImageInsideFrame

\* C6: mapping has 4 entries, and when Run or FiducialRun returns in a state
\* other than NO_ERROR they are all zero.
MappingZeroUnlessComplete ==
    /\ Len(mapping) = 4
    /\ (AfterAnyRun /\ state # "NO_ERROR") => mapping = Zeros

\* C6 witness: a run has stopped at a range gate on an object on which an
\* earlier run got as far as FindFiducialIDs (its pairs are still there)
StoppedAfterCompleteRun ==
    AfterAnyRun /\ state = "MIN_MAX_BAD" /\ rowPairs # << >> /\ mapping = Zeros

\* C7 as stated: when Run returns, fiducialIDs and pixelFiducials have the
\* same size.
IDsMatchFiducials == AfterRun => Len(fiducialIDs) = Len(pixelFiducials)

\* C7 amended: when Run returns, fiducialIDs and pixelFiducials have the same
\* size, except in FEW_FIDUCIALS, where pixelFiducials holds the one or two
\* fiducials found and fiducialIDs is empty.
IDsMatchFiducialsUnlessFew ==
    AfterRun =>
        IF state = "FEW_FIDUCIALS"
        THEN Len(fiducialIDs) = 0 /\ Len(pixelFiducials) \in {1, 2}
        ELSE Len(fiducialIDs) = Len(pixelFiducials)

\* C7 witness: Run has stopped at FEW_FIDUCIALS with two fiducials
TwoFiducialsNoIDs ==
    AfterRun /\ state = "FEW_FIDUCIALS" /\ Len(pixelFiducials) = 2 /\ fiducialIDs = << >>

\* what C8 calls the outputs of Run
Outputs ==
    << state, pixelCenter, pixelError, limbCrossings, pixelFiducials, fiducialIDs, mapping >>

\* C8 as stated: a Run that follows a Run, with no other call in between,
\* leaves the outputs as the first left them.
RunIdempotent == [][(AfterRun /\ RunStep) => Outputs' = Outputs]_vars

\* C8 amended: a Run that follows a Run which stopped before FindPixelCenter
\* (FRAME_EMPTY, MIN_MAX_BAD, DYNAMIC_RANGE_LOW) leaves the outputs as the
\* first left them.
RunIdempotentBeforeCenter ==
    [][(AfterRun /\ state \in BeforeCenter /\ RunStep) => Outputs' = Outputs]_vars

\* C8 witness: the second of two Runs in a row has returned at a range gate
SecondRunAtRangeGate == runs = 2 /\ state \in {"MIN_MAX_BAD", "DYNAMIC_RANGE_LOW"}

\* C9: when Run or FiducialRun returns, limbCrossings, slopes,
\* pixelFiducials, fiducialIDs, rowPairs, colPairs and mapping hold nothing
\* but what the stages of this run put there.
NoDataOfEarlierRuns ==
    AfterAnyRun =>
        /\ ~Ran("FindPixelCenter") => limbCrossings = << >> /\ slopes = << >>
        /\ ~Ran("FindPixelFiducials") => pixelFiducials = << >>
        /\ ~Ran("FindFiducialIDs") =>
              fiducialIDs = << >> /\ rowPairs = << >> /\ colPairs = << >>
        /\ ~Ran("FindMapping") => mapping = Zeros

\* C10: on a loaded frame that is not empty, Run and FiducialRun store what
\* calcMinMax finds in frameMin and frameMax, return MIN_MAX_BAD exactly when
\* min >= max and otherwise DYNAMIC_RANGE_LOW exactly when max - min < 32,
\* and in both cases call no later stage.
RangeGates ==
    (AfterAnyRun /\ frame # EmptyFrame /\ state # "FRAME_EMPTY") =>
        LET min == Buffer[frame].minMax.min
            max == Buffer[frame].minMax.max
        IN  /\ frameMin = min /\ frameMax = max
            /\ state = "MIN_MAX_BAD" <=> min >= max
            /\ state = "DYNAMIC_RANGE_LOW" <=> (min < max /\ max - min < 32)
            /\ state \in {"MIN_MAX_BAD", "DYNAMIC_RANGE_LOW"} =>
                  /\ called = << "calcMinMax" >>
                  /\ limbCrossings = << >> /\ slopes = << >>
                  /\ pixelFiducials = << >> /\ fiducialIDs = << >>
                  /\ mapping = Zeros

\* C10 witness: a run has returned DYNAMIC_RANGE_LOW on a range of 31
RangeOf31Low ==
    AfterAnyRun /\ state = "DYNAMIC_RANGE_LOW" /\ frameMax - frameMin = 31

\* the stages of Run in the order it calls them
StageOrder ==
    << "calcMinMax", "FindPixelCenter", "FindPixelFiducials", "FindFiducialIDs",
       "FindMapping" >>

\* the fiducials whose ID has both coordinates valid (not below -10)
ValidIDCount ==
    Cardinality({k \in 1..Len(fiducialIDs) :
                    fiducialIDs[k].x >= -10 /\ fiducialIDs[k].y >= -10})

\* C11: Run calls its stages in order and returns at the first gate that
\* fails: once FindPixelCenter was called the state is NO_LIMB_CROSSINGS
\* exactly with 0 crossings and FEW_LIMB_CROSSINGS exactly with 1..3; once
\* FindPixelFiducials was called it is NO_FIDUCIALS exactly with 0 fiducials
\* and FEW_FIDUCIALS exactly with 1..2; once FindFiducialIDs was called it is
\* NO_IDS exactly with 0 valid IDs and FEW_IDS exactly with 1..2; a later
\* stage was called only after the gates before it passed, and NO_ERROR comes
\* with >= 4 crossings, >= 3 fiducials and >= 3 valid IDs.
GatesInStageOrder ==
    AfterRun =>
        /\ called = SubSeq(StageOrder, 1, Len(called))
        /\ IF Ran("FindPixelCenter")
           THEN /\ state = "NO_LIMB_CROSSINGS" <=> Len(limbCrossings) = 0
                /\ state = "FEW_LIMB_CROSSINGS" <=> Len(limbCrossings) \in 1..3
           ELSE state \in BeforeCenter \cup {"STALE_DATA"}
        /\ IF Ran("FindPixelFiducials")
           THEN /\ Len(limbCrossings) >= 4
                /\ state = "NO_FIDUCIALS" <=> Len(pixelFiducials) = 0
                /\ state = "FEW_FIDUCIALS" <=> Len(pixelFiducials) \in 1..2
           ELSE state \notin {"NO_FIDUCIALS", "FEW_FIDUCIALS", "NO_IDS", "FEW_IDS",
                              "NO_ERROR"}
        /\ IF Ran("FindFiducialIDs")
           THEN /\ Len(pixelFiducials) >= 3
                /\ state = "NO_IDS" <=> ValidIDCount = 0
                /\ state = "FEW_IDS" <=> ValidIDCount \in 1..2
           ELSE state \notin {"NO_IDS", "FEW_IDS", "NO_ERROR"}
        /\ Ran("FindMapping") <=> state = "NO_ERROR"
        /\ state = "NO_ERROR" => ValidIDCount >= 3

\* C11 witness: Run has stopped at NO_IDS with three or more fiducials, none
\* of them with a valid ID
NoIDsForFiducials ==
    AfterRun /\ state = "NO_IDS" /\ Len(pixelFiducials) >= 3 /\ ValidIDCount = 0

\* C12: the state is never MAPPING_ILL_CONDITIONED, and a run that counts 3
\* or more valid IDs ends in NO_ERROR.
NeverIllConditioned ==
    /\ state # "MAPPING_ILL_CONDITIONED"
    /\ (AfterAnyRun /\ Ran("FindFiducialIDs") /\ ValidIDCount >= 3) => state = "NO_ERROR"

\* C12 witness: a run with 3 valid IDs has ended in NO_ERROR
MappedThreeIDs ==
    AfterAnyRun /\ Ran("FindMapping") /\ ValidIDCount = 3 /\ state = "NO_ERROR"

\* C13: GetInteger and GetFloat return, for each of the 8 integer and the 8
\* float parameters, the value last passed to SetInteger or SetFloat for
\* that parameter, or the constructor's default if none was; LoadFrame, Run
\* and FiducialRun change no parameter.
ParametersAsSet ==
    /\ \A p \in DOMAIN DefaultInts : GetInteger(p) = passed.ints[p]
    /\ \A p \in DOMAIN DefaultFloats : GetFloat(p) = passed.floats[p]

\* C13 witness: a run has returned on a loaded frame after FIDUCIAL_LENGTH
\* was set, MIN_LIMB_WIDTH still at its default
RunAfterSettingLength ==
    /\ AfterAnyRun /\ frame # EmptyFrame
    /\ GetInteger("FIDUCIAL_LENGTH") = 13
    /\ GetInteger("MIN_LIMB_WIDTH") = DefaultInts.MIN_LIMB_WIDTH

\* what C14 calls the outputs of Run, of the members r a run returns with
OutputsOf(r) ==
    << r.state, r.pixelCenter, r.limbCrossings, r.pixelFiducials, r.fiducialIDs,
       r.mapping >>

\* the members a run starts with, the solar image, its offset and its size
\* replaced by those of an object that has processed no frame
WithoutRetainedImage(s) ==
    [s EXCEPT !.solarImage = WholeFrame(EmptyFrame), !.solarImageOffset = Pt(0, 0),
              !.solarImageSize = Size(0, 0)]

\* C14: on a frame just loaded that passes the range gates, the outputs of
\* Run depend on the configuration, the frame and the previous pixelCenter
\* only: they are the same with the solar image, offset and size retained
\* from earlier frames as without them.
RunIndependentOfRetainedImage ==
    (lastOp = "LoadFrame" /\ state = "NO_ERROR"
        /\ RangeGate(Buffer[frame].minMax.min, Buffer[frame].minMax.max) = "") =>
        \A g \in Garbage :
            OutputsOf(CenterStage(Measured(Cleared), g))
                = OutputsOf(CenterStage(WithoutRetainedImage(Measured(Cleared)), g))

\* C15: after LoadFrame has accepted a frame and before the next run, a
\* getter that returns NO_ERROR returns no data of a frame processed before:
\* what it copies out is as the constructor left it.
LoadFrameResets ==
    (lastOp = "LoadFrame" /\ state = "NO_ERROR") =>
        /\ GetPixelMinMax.code = "NO_ERROR" =>
              GetPixelMinMax.min = 255 /\ GetPixelMinMax.max = 0
        /\ GetPixelCrossings.code = "NO_ERROR" => GetPixelCrossings.crossings = << >>
        /\ GetPixelCenter.code = "NO_ERROR" => GetPixelCenter.center = Pt(QInt(-1), QInt(-1))
        /\ GetPixelError.code = "NO_ERROR" => GetPixelError.error = Pt(QInt(0), QInt(0))
        /\ GetPixelFiducials.code = "NO_ERROR" => GetPixelFiducials.fiducials = << >>
        /\ GetFiducialIDs.code = "NO_ERROR" => GetFiducialIDs.IDs = << >>
        /\ GetMapping.code = "NO_ERROR" => GetMapping.map = Zeros

\* a step that is a call of FiducialRun
FiducialRunStep == calls' # calls /\ lastOp' = "FiducialRun"

\* C16: FiducialRun does not call FindPixelCenter: it leaves pixelCenter and
\* pixelError as they were and limbCrossings empty, never ends in a limb or
\* center state, takes the whole frame as the solar image, at offset (0, 0)
\* once the image has passed its gates, and applies the fiducial and ID
\* gates of Run.
FiducialRunSkipsCenter ==
    [][FiducialRunStep =>
        /\ ~Ran("FindPixelCenter")'
        /\ pixelCenter' = pixelCenter /\ pixelError' = pixelError
        /\ limbCrossings' = << >> /\ slopes' = << >>
        /\ state' \notin {"NO_LIMB_CROSSINGS", "FEW_LIMB_CROSSINGS",
                          "CENTER_OUT_OF_BOUNDS", "CENTER_ERROR_LARGE"}
        /\ state' \in PastCenter => solarImage' = WholeFrame(frame)
        /\ IF Ran("FindPixelFiducials")'
           THEN /\ solarImageOffset' = Pt(0, 0)
                /\ solarImageSize' = frameSize
                /\ state' = "NO_FIDUCIALS" <=> Len(pixelFiducials') = 0
                /\ state' = "FEW_FIDUCIALS" <=> Len(pixelFiducials') \in 1..2
           ELSE state' \notin {"NO_FIDUCIALS", "FEW_FIDUCIALS", "NO_IDS", "FEW_IDS",
                               "NO_ERROR"}
        /\ IF Ran("FindFiducialIDs")'
           THEN /\ state' = "NO_IDS" <=> ValidIDCount' = 0
                /\ state' = "FEW_IDS" <=> ValidIDCount' \in 1..2
                /\ state' = "NO_ERROR" <=> ValidIDCount' >= 3
           ELSE state' \notin {"NO_IDS", "FEW_IDS", "NO_ERROR"}]_vars

\* C16 witness: FiducialRun has ended in NO_ERROR on an object whose
\* pixelCenter an earlier Run found
FiducialRunKeptCenter ==
    lastOp = "FiducialRun" /\ state = "NO_ERROR" /\ ~CenterIsSentinel

\* the pixels of frame f with a value <= j
CumulativeCount(f, j) ==
    Cardinality({i \in 0..(f.w * f.h - 1) : Pix(f, i \div f.w, i % f.w) <= j})

\* j is the smallest intensity whose cumulative count in f reaches num/den
\* of the pixels, the quotient truncated to a whole number of pixels if asked
SmallestReaching(f, j, num, den, truncated) ==
    LET len == f.w * f.h
        reaches(i) == IF truncated THEN CumulativeCount(f, i) >= (num * len) \div den
                      ELSE den * CumulativeCount(f, i) >= num * len
    IN  j \in 0..255 /\ reaches(j) /\ (j = 0 \/ ~reaches(j - 1))

AfterMinMax == lastOp = "calcMinMax"

\* C17 as stated: calcMinMax returns as max the smallest intensity whose
\* cumulative count is at least 99.5% of the pixels, as min the smallest
\* whose cumulative count is at least 0.5% of them, and min <= max.
MinMaxAreQuantiles ==
    AfterMinMax =>
        /\ SmallestReaching(frame, frameMax, 995, 1000, FALSE)
        /\ SmallestReaching(frame, frameMin, 5, 1000, FALSE)
        /\ frameMin <= frameMax

\* C17 amended: max is the smallest intensity whose cumulative count is at
\* least 99.5% of the pixel count truncated to a whole number, min the
\* smallest whose cumulative count is at least 0.5% of the pixel count, and
\* min <= max for every frame of 2 pixels or more.
MinMaxAreTruncatedQuantiles ==
    AfterMinMax =>
        /\ SmallestReaching(frame, frameMax, 995, 1000, TRUE)
        /\ SmallestReaching(frame, frameMin, 5, 1000, FALSE)
        /\ frame.w * frame.h >= 2 => frameMin <= frameMax

\* C17 witness: calcMinMax has returned max = 10 on a frame of 100 pixels,
\* 99 of them 10 and one 200
OneBrightPixelIgnored ==
    /\ AfterMinMax /\ frame.w * frame.h = 100
    /\ CumulativeCount(frame, 10) = 99 /\ Pix(frame, 0, 0) = 200
    /\ frameMax = 10

----------------------------------------------------------------------------
(* FindLimbCrossings called by itself on a strip of pixels.                *)

\* the grey levels of the strips: background, limb, disk
Levels == {10, 120, 200}

\* the lengths of the strips: every strip of the three levels up to MaxLen,
\* and the longer strips of background and disk up to MaxLong
MinLen == 5

MaxLen == 8

MaxLong == 11

Strips ==
    UNION ( { [1..n -> Levels] : n \in MinLen..MaxLen } \cup
            { [1..n -> {10, 200}] : n \in (MaxLen + 1)..MaxLong } )

\* The object after construction, SetInteger for the three parameters
\* FindLimbCrossings reads, and a Run that found frameMin and frameMax; the
\* strip is the argument of the call to come.
InitChord ==
    /\ chordArg \in { Strip(b) : b \in Strips }
    /\ crossingsOut = NoCrossings
    /\ demo = NotStarted
    /\ lattice = NoPair
    /\ \E R \in {1, 3} :
          ints = [DefaultInts EXCEPT !["MIN_LIMB_WIDTH"] = 2, !["LIMB_FIT_WIDTH"] = 1,
                                     !["SOLAR_RADIUS"] = R]
    /\ passed = [ints |-> ints, floats |-> DefaultFloats]
    /\ floats = DefaultFloats
    /\ frameMin = 10
    /\ frameMax = 200
    /\ frame = EmptyFrame
    /\ frameSize = Size(0, 0)
    /\ state = "NO_ERROR"
    /\ lastOp = "SetInteger"
    /\ calls = 1
    /\ solarImage = WholeFrame(EmptyFrame)
    /\ solarImageSize = Size(0, 0)
    /\ solarImageOffset = Pt(0, 0)
    /\ pixelCenter = Pt(QInt(-1), QInt(-1))
    /\ pixelError = Pt(QInt(0), QInt(0))
    /\ kernel = GenerateKernel(DefaultInts.FIDUCIAL_LENGTH, DefaultInts.FIDUCIAL_WIDTH)
    /\ mDistances = Distances(DefaultFloats.FIDUCIAL_SPACING)
    /\ nDistances = Distances(DefaultFloats.FIDUCIAL_SPACING)
    /\ limbCrossings = << >>
    /\ slopes = << >>
    /\ pixelFiducials = << >>
    /\ fiducialIDs = << >>
    /\ rowPairs = << >>
    /\ colPairs = << >>
    /\ mapping = Zeros
    /\ called = << >>
    /\ runs = 0

\* FindLimbCrossings(chord, crossings): the byte past the strip's end, which
\* the fit of an edge at the last pixel reads, is arbitrary
FindLimbCrossingsStep ==
    LET returned(r) ==
            /\ crossingsOut' = r
            /\ slopes' = slopes \o r.slopes
    IN  /\ lastOp = "SetInteger"
        /\ \E g \in Garbage : returned(FindLimbCrossings(chordArg, frameMin, frameMax, g))
        /\ lastOp' = "FindLimbCrossings"
        /\ called' = << "FindLimbCrossings" >>
        /\ calls' = calls + 1
        /\ UNCHANGED << state, frame, frameSize, frameMin, frameMax, ints, floats, kernel,
                        mDistances, nDistances, pixelCenter, pixelError, solarImage,
                        solarImageSize, solarImageOffset, limbCrossings, pixelFiducials,
                        fiducialIDs, rowPairs, colPairs, mapping, runs, passed,
                        chordArg, demo, lattice >>

NextChord == FindLimbCrossingsStep

SpecChord == InitChord /\ [][NextChord]_vars

\* FindLimbCrossings has returned for the strip
AfterCrossings == lastOp = "FindLimbCrossings"

\* the largest byte of the strip is not below the disk threshold
BrightEnough ==
    \E k \in 1..chordArg.K :
        QGe(QInt(chordArg.bytes[k]), upperThreshold(frameMin, frameMax))

\* pixel k of the strip is above the limb threshold
Lit(k) == chordArg.bytes[k + 1] > Trunc(lowerThreshold(frameMin, frameMax))

\* the strip's only threshold crossing is a rising edge at index e
OnlyRisingEdgeAt(e) == \A k \in 0..(chordArg.K - 1) : Lit(k) <=> k >= e

\* the strip's only threshold crossing is a falling edge: e is the last
\* pixel above the threshold
OnlyFallingEdgeAt(e) == \A k \in 0..(chordArg.K - 1) : Lit(k) <=> k <= e

\* c is within limbFitWidth of the edge e
NearEdge(c, e) == QGe(c, QInt(e - limbFitWidth)) /\ QLe(c, QInt(e + limbFitWidth))

\* C18 (as stated): a sufficiently bright strip whose only threshold
\* crossing is a rising edge at index 3, with solarRadius >= 3, makes
\* FindLimbCrossings return 0 with two crossings, the first of them the
\* synthesized leading edge -1.
RisingEdgeGetsLeadingCrossing ==
    (AfterCrossings /\ BrightEnough /\ OnlyRisingEdgeAt(3) /\ solarRadius >= 3)
        => /\ crossingsOut.error = 0
           /\ Len(crossingsOut.crossings) = 2
           /\ crossingsOut.crossings[1] = QInt(-1)

\* C18 (amended): for a sufficiently bright strip of length K with one
\* threshold crossing at index 3, FindLimbCrossings returns 0 only with two
\* crossings; a rising edge is paired with the synthesized trailing edge K,
\* and only when 3 > K - 2*solarRadius, otherwise -1 is returned; a falling
\* edge is paired with the synthesized leading edge -1, and only when
\* 3 < 2*solarRadius, otherwise -1 is returned; the real edge's crossing is
\* the fitted one, within limbFitWidth of index 3.
SingleEdgeGetsCrossingAtItsEnd ==
    (AfterCrossings /\ BrightEnough) =>
        /\ OnlyRisingEdgeAt(3) =>
              /\ crossingsOut.error = 0 =>
                    /\ Len(crossingsOut.crossings) = 2
                    /\ crossingsOut.crossings[2] = QInt(chordArg.K)
                    /\ NearEdge(crossingsOut.crossings[1], 3)
                    /\ 3 > chordArg.K - 2 * solarRadius
              /\ ~(3 > chordArg.K - 2 * solarRadius) => crossingsOut.error = -1
        /\ OnlyFallingEdgeAt(3) =>
              /\ crossingsOut.error = 0 =>
                    /\ Len(crossingsOut.crossings) = 2
                    /\ crossingsOut.crossings[1] = QInt(-1)
                    /\ NearEdge(crossingsOut.crossings[2], 3)
                    /\ 3 < 2 * solarRadius
              /\ ~(3 < 2 * solarRadius) => crossingsOut.error = -1

\* C18 witness: a strip rising at index 3 for which 0 was returned with the
\* trailing edge synthesized, solarRadius being 3.
RisingEdgePairedWithEnd ==
    /\ AfterCrossings
    /\ BrightEnough
    /\ OnlyRisingEdgeAt(3)
    /\ solarRadius >= 3
    /\ crossingsOut.error = 0
    /\ crossingsOut.crossings[2] = QInt(chordArg.K)

\* the edges of the strip as scanned, and those left after the edges of
\* every consecutive pair spaced <= minLimbWidth are deleted
ScannedEdges == ScanEdges(chordArg, Trunc(lowerThreshold(frameMin, frameMax)), 0)

Survivors == RemoveCloseEdges(ScannedEdges)

\* C19: for a strip with two or more threshold crossings FindLimbCrossings
\* returns 0 only if exactly two edges survive the deletion of the closely
\* spaced pairs, the first a real rising edge and the second a real falling
\* edge, and neither crossing returned is a synthesized one (-1 or K).
ZeroOnlyForRisingThenFalling ==
    (AfterCrossings /\ Len(ScannedEdges) >= 2 /\ crossingsOut.error = 0) =>
        /\ Len(Survivors) = 2
        /\ Survivors[1] > 0
        /\ Survivors[2] < 0
        /\ crossingsOut.crossings[1] # QInt(-1)
        /\ crossingsOut.crossings[2] # QInt(chordArg.K)

----------------------------------------------------------------------------
(* Tracking: frames loaded and run one after another, with the solar       *)
(* radius at its default or set to half the radius of the sun in them.     *)

TrackSettings == { <<"SOLAR_RADIUS", 14>> }

NextTrack ==
    \/ \E f \in TrackFrames : Call(LoadFrame(f))
    \/ Call(Run)
    \/ \E p \in TrackSettings : Call(SetInteger(p[1], p[2]))

SpecTrack == Init /\ [][NextTrack]_vars

\* the image FindPixelCenter searches in the state: the whole frame, or the
\* solar image kept from the run before, with its offset in the frame
Searching == OutOfFrame(pixelCenter, frameSize) \/ MatEmpty(solarImage)

Domain ==
    [input |-> IF Searching THEN WholeFrame(frame) ELSE solarImage,
     dx    |-> IF Searching THEN 0 ELSE solarImageOffset.x,
     dy    |-> IF Searching THEN 0 ELSE solarImageOffset.y,
     limit |-> IF Searching THEN initialNumChords ELSE chordsPerAxis]

\* a step that is a call of Run in which FindPixelCenter was called
CenterStep == RunStep /\ \E i \in 1..Len(called') : called'[i] = "FindPixelCenter"

\* C20: a chord whose first crossing is -1 has its crossings saved only if
\* the searched image starts at offset 0 of the frame on the chord's axis,
\* and a chord whose second crossing is the strip's length K only if the
\* searched image ends where the frame ends on that axis; a chord is saved
\* with both crossings or not at all.  When the whole frame is searched,
\* every chord with two finite crossings is saved.
VirtualCrossingsAtFrameEdge ==
    [][CenterStep =>
        LET D     == Domain
            saved == limbCrossings'
            first(i)  == saved[2 * i - 1]
            second(i) == saved[2 * i]
            kept(pts, g) ==
                \A dim \in {0, 1} :
                    \A k \in 1..D.limit :
                        LET step == (IF dim = 1 THEN D.input.rows ELSE D.input.cols)
                                        \div D.limit
                            pos  == step \div 2 + (k - 1) * step
                            r    == FindLimbCrossings(IF dim = 1 THEN RowOf(D.input, pos)
                                                      ELSE ColOf(D.input, pos),
                                                      frameMin', frameMax', g)
                        IN  (r.error = 0 /\ Len(r.crossings) = 2) =>
                                \A l \in 1..2 :
                                    (IF dim = 1 THEN Pt(r.crossings[l], QInt(pos))
                                     ELSE Pt(QInt(pos), r.crossings[l])) \in pts
        IN  /\ Len(saved) % 2 = 0
            /\ \A i \in 1..(Len(saved) \div 2) :
                  \* a row: the crossings are along x
                  /\ first(i).y = second(i).y =>
                        /\ QSub(first(i).x, QInt(D.dx)) = QInt(-1) => D.dx = 0
                        /\ QSub(second(i).x, QInt(D.dx)) = QInt(D.input.cols) =>
                               D.dx + D.input.cols = frame.w
                  \* a column: the crossings are along y
                  /\ first(i).x = second(i).x =>
                        /\ QSub(first(i).y, QInt(D.dy)) = QInt(-1) => D.dy = 0
                        /\ QSub(second(i).y, QInt(D.dy)) = QInt(D.input.rows) =>
                               D.dy + D.input.rows = frame.h
            /\ Searching =>
                  \E g \in Garbage : kept({saved[j] : j \in 1..Len(saved)}, g)]_vars

----------------------------------------------------------------------------
(* The search of the fiducials: FiducialRun on frames with up to three     *)
(* responses of the matched filter, with the parameters at their defaults, *)
(* with room for two fiducials only, or with a negative fiducial width.    *)

FiducialSettings == { <<"NUM_FIDUCIALS", 2>>, <<"FIDUCIAL_WIDTH", -1>> }

NextFiducials ==
    \/ \E f \in FiducialFrames : Call(LoadFrame(f))
    \/ Call(FiducialRun)
    \/ \E p \in FiducialSettings : Call(SetInteger(p[1], p[2]))

SpecFiducials == Init /\ [][NextFiducials]_vars

\* FindPixelFiducials was called by the run that has returned
AfterFiducials == AfterAnyRun /\ Ran("FindPixelFiducials")

\* the correlation image of the run that has returned, and pixelFiducials
\* as the scan of its local maxima left it
Correlation == matchTemplate(solarImage, kernel)

Accepted == ScanMaxima(Correlation, << >>, LocalMaxima(Correlation))

\* two points within 2*fiducialLength of each other on both axes
Close(p, q) ==
    Abs(p.y - q.y) < fiducialLength * 2 /\ Abs(p.x - q.x) < fiducialLength * 2

\* C21: when the scan of FindPixelFiducials ends, no two accepted peaks are
\* within 2*fiducialLength of each other on both axes, no local maximum
\* close to an accepted peak has a higher correlation than it, and the
\* accepted peaks are at most numFiducials.
AcceptedPeaksApart ==
    AfterFiducials =>
        LET corr == Correlation
            found(acc, maxima) ==
                /\ Len(acc) <= numFiducials
                /\ \A i \in 1..Len(acc) : \A j \in 1..Len(acc) :
                        i # j => ~Close(acc[i], acc[j])
                /\ \A i \in 1..Len(acc) : \A c \in 1..Len(maxima) :
                        Close(acc[i], Pt(maxima[c].n, maxima[c].m))
                            => maxima[c].v <= CorrAt(corr, acc[i].y, acc[i].x)
        IN  found(Accepted, LocalMaxima(corr))

\* C22: after FindPixelFiducials has returned, every entry of
\* pixelFiducials has finite coordinates.
FiducialsFinite ==
    AfterFiducials =>
        \A k \in 1..Len(pixelFiducials) :
            IsFinite(pixelFiducials[k].x) /\ IsFinite(pixelFiducials[k].y)

----------------------------------------------------------------------------
(* The identification of the fiducials: FiducialRun on frames with         *)
(* fiducials on the lattice, with the tolerance of the spacing at its      *)
(* default or widened to 2 pixels.                                         *)

IDSettings == { <<"FIDUCIAL_SPACING_TOL", QInt(2)>> }

NextIDs ==
    \/ \E f \in IDFrames : Call(LoadFrame(f))
    \/ Call(FiducialRun)
    \/ \E p \in IDSettings : Call(SetFloat(p[1], p[2]))

SpecIDs == Init /\ [][NextIDs]_vars

\* FindFiducialIDs was called by the run that has returned
AfterIDs == AfterAnyRun /\ Ran("FindFiducialIDs")

\* the two passes of the run that has returned
Passes == FindFiducialIDs(pixelFiducials, mDistances, nDistances)

\* the elements of a sequence
Elements(s) == {s[i] : i \in 1..Len(s)}

\* a lattice index, not one of the marks -100 and -200 nor a step from one
Definite(v) == v > -10

\* C23: the second pass of FindFiducialIDs gives votes only to a fiducial
\* whose ID on that axis is -100 after the first pass, every vote is derived
\* from a partner's definite lattice index, and an ID that is not -100 after
\* the first pass is not changed by the second.
SecondPassFromDefinite ==
    AfterIDs =>
        LET check(p) ==
                \A k \in 1..Len(pixelFiducials) :
                    /\ p.rowVotes[k] # << >> => p.firstIDs[k].y = -100
                    /\ p.colVotes[k] # << >> => p.firstIDs[k].x = -100
                    /\ \A v \in Elements(p.rowVotes[k]) \cup Elements(p.colVotes[k]) :
                           Definite(v)
                    /\ p.firstIDs[k].y # -100 => fiducialIDs[k].y = p.firstIDs[k].y
                    /\ p.firstIDs[k].x # -100 => fiducialIDs[k].x = p.firstIDs[k].x
        IN  check(Passes)

\* the number of times v occurs in the sequence bag
Count(bag, v) == Cardinality({i \in 1..Len(bag) : bag[i] = v})

\* the values of the bag with the highest count
Leaders(bag) == {v \in Elements(bag) : \A u \in Elements(bag) : Count(bag, u) <= Count(bag, v)}

\* what the first pass makes of a bag of votes
MarkOf(bag) ==
    IF bag = << >> THEN -100
    ELSE IF Cardinality(Leaders(bag)) >= 2 THEN -200
    ELSE CHOOSE v \in Leaders(bag) : TRUE

\* the fiducials with a lattice index on both axes
Identified == {k \in 1..Len(fiducialIDs) : fiducialIDs[k].x >= -10 /\ fiducialIDs[k].y >= -10}

\* C24: the first pass marks an axis -200 when two or more values tie for
\* the highest count of its votes, -100 when there are no votes, and gives
\* the unique mode otherwise; a tie stays -200.  A fiducial with -100 or
\* -200 on either axis is not identified; the count of the identified
\* fiducials gates NO_IDS (none) and FEW_IDS (fewer than 3), and FindMapping
\* fits exactly the identified fiducials.
TiesMarkedAndExcluded ==
    AfterIDs =>
        LET check(p) ==
                /\ \A k \in 1..Len(pixelFiducials) :
                      /\ p.firstIDs[k].y = MarkOf(p.rowBags[k])
                      /\ p.firstIDs[k].x = MarkOf(p.colBags[k])
                      /\ p.firstIDs[k].y = -200 => fiducialIDs[k].y = -200
                      /\ p.firstIDs[k].x = -200 => fiducialIDs[k].x = -200
                      /\ (\/ fiducialIDs[k].x \in {-100, -200}
                          \/ fiducialIDs[k].y \in {-100, -200}) => k \notin Identified
                /\ state = "NO_IDS" <=> Cardinality(Identified) = 0
                /\ state = "FEW_IDS" <=> Cardinality(Identified) \in {1, 2}
                /\ Ran("FindMapping") <=> Cardinality(Identified) >= 3
            fitted(used) ==
                LET ids(i) == fiducialIDtoScreen(fiducialIDs[used[i]])
                    fits(fitX, fitY) ==
                        mapping = << fitX.intercept, fitX.slope, fitY.intercept, fitY.slope >>
                IN  fits(LinearFit([i \in 1..Len(used) |-> pixelFiducials[used[i]].x],
                                   [i \in 1..Len(used) |-> QInt(ids(i).x)]),
                         LinearFit([i \in 1..Len(used) |-> pixelFiducials[used[i]].y],
                                   [i \in 1..Len(used) |-> QInt(ids(i).y)]))
        IN  /\ check(Passes)
            /\ Ran("FindMapping") => fitted(SortAsc(Identified))

\* C24 witness: FindMapping has fitted three fiducials and left out one
\* whose row votes tied
TieLeftOutOfFit ==
    /\ AfterIDs
    /\ Ran("FindMapping")
    /\ Cardinality(Identified) = 3
    /\ \E k \in 1..Len(fiducialIDs) :
          /\ fiducialIDs[k].y = -200
          /\ fiducialIDs[k].x >= -10
          /\ Cardinality(Leaders(Passes.rowBags[k])) >= 2

\* C25: at every Run or FiducialRun the kernel is the one of the current
\* fiducialLength and fiducialWidth (side 2*(fiducialLength/2+1)+1) and the
\* distance tables are the ones of the current fiducialSpacing.
DerivedDataFollowsConfiguration ==
    AfterAnyRun =>
        /\ kernel.rows = 2 * (ints.FIDUCIAL_LENGTH \div 2 + 1) + 1
        /\ kernel.cols = 2 * (ints.FIDUCIAL_LENGTH \div 2 + 1) + 1
        /\ kernel.fiducialLength = ints.FIDUCIAL_LENGTH
        /\ kernel.fiducialWidth = ints.FIDUCIAL_WIDTH
        /\ \A k \in 0..13 :
              LET entry == QDiv(QMul(QInt(IF k <= 6 THEN 84 - 6 * k ELSE 45 + 6 * (k - 7)),
                                     floats.FIDUCIAL_SPACING), QInt(15))
              IN  mDistances[k + 1] = entry /\ nDistances[k + 1] = entry

\* main is past the statements that clear the flag
FlagCleared == demo.pc["main"] \in {"join", "done"}

\* the three threads have returned and main has joined them
ThreadsStopped == At("main", "done") /\ \A t \in Threads : At(t, "done")

\* C26: once main has cleared the flag, the stream, processing and display
\* threads read it at the top of their next iteration and return, so with
\* every thread scheduled in the end all three terminate and the joins of
\* main complete; a thread that has returned starts nothing again.
CancellationStopsThreads ==
    /\ [][\A t \in Threads : At(t, "done") => demo'.pc[t] = "done"]_vars
    /\ FlagCleared ~> ThreadsStopped

\* C27: the stream thread is never held up by the processing thread beyond
\* the assignment under frameMutex, at most one frame-ready signal is
\* pending for the one frame of the slot, and the processing thread takes
\* each published frame at most once.
MailboxLatestOnce ==
    /\ demo.frameMutex = "process" => At("process", "fetch")
    /\ demo.frameReady <= 1
    /\ demo.frameReady = 1 => demo.frame # 0
    /\ demo.taken <= 1

\* C28: the processing thread never reads pixels of a buffer while the
\* stream thread writes pixels into that buffer.
NoReadWhileWriting == ~(demo.writing # 0 /\ demo.reading = demo.writing)

\* the pair of edges handed to the fit, << >> when the strip is rejected
\* before it
PairToFit ==
    LET paired == IF Len(ScannedEdges) = 1 THEN VirtualEdges(ScannedEdges, chordArg.K)
                  ELSE Survivors
    IN  IF /\ BrightEnough
           /\ Len(ScannedEdges) >= 1
           /\ Len(paired) = 2
           /\ paired[1] >= -1
           /\ paired[2] < 0
        THEN paired ELSE << >>

\* the real edges whose neighbourhood was read: the first of the pair, and
\* the second once the first has given a crossing
FittedEdges ==
    IF PairToFit = << >> THEN {}
    ELSE {Abs(PairToFit[1]) : i \in {1} \ {j \in {1} : PairToFit[1] = -1}}
         \cup {Abs(PairToFit[2]) : i \in {1} \ {j \in {1} :
                   PairToFit[2] = -chordArg.K \/ Len(crossingsOut.crossings) = 0}}

\* C29: while it refines an edge FindLimbCrossings reads only indices l of
\* the chord with 0 <= l <= K-1, also for an edge within limbFitWidth of
\* the end of the chord.
FitReadsInsideChord ==
    AfterCrossings =>
        \A edge \in FittedEdges :
            \A l \in FitWindow(edge, chordArg.K).min..FitWindow(edge, chordArg.K).max :
                0 <= l /\ l <= chordArg.K - 1

\* the position of lattice line i along its axis, in units of 6 screen units
LatticeLine(i) == IF i >= 0 THEN 45 * i + 3 * i * (i - 1) ELSE 48 * i - 3 * i * (i + 1)

\* the unscaled entry d of the table of distances
TableEntry(d) == IF d <= 6 THEN 84 - 6 * d ELSE 45 + 6 * (d - 7)

\* C30: the table of distances and the ID-to-screen formula describe one
\* lattice.  For every entry d of the table, 6*(f(d-6) - f(d-7)) is 6 times
\* the unscaled entry; the pair that the first pass votes d-7 and d-6 lies
\* 6 times the entry apart on the screen along its axis and 6*15 screen
\* units apart on the other axis; and the second pass gives each member,
\* from the index of the other, the index the first pass gave it.
LatticeOfTableAndScreen ==
    lattice.voted =>
        LET d     == lattice.d
            dist  == IF lattice.rows THEN mDistances ELSE nDistances
            along(p) == IF lattice.rows THEN p.y ELSE p.x
            across(p) == IF lattice.rows THEN p.x ELSE p.y
            hi    == CHOOSE k \in 1..2 : \A j \in 1..2 : lattice.first[j][1] <= lattice.first[k][1]
            lo    == 3 - hi
        IN  /\ \A k \in 1..2 : Len(lattice.first[k]) = 1
            /\ lattice.first[lo][1] = d - 7
            /\ lattice.first[hi][1] = d - 6
            /\ 6 * (LatticeLine(d - 6) - LatticeLine(d - 7)) = 6 * TableEntry(d)
            /\ QMul(QInt(15), dist[d + 1]) = QMul(QInt(TableEntry(d)), fiducialSpacing)
            /\ along(lattice.screen[hi]) - along(lattice.screen[lo]) = 6 * TableEntry(d)
            /\ Abs(across(lattice.screen[hi]) - across(lattice.screen[lo])) = 6 * 15
            /\ \A k \in 1..2 : lattice.second[k] = lattice.first[k]

\* C30 witness: the pair of entry 6, across the change of formula between
\* the indices -1 and 0, with a negative difference: the first member has
\* index 0 from both passes
PairAcrossZero ==
    /\ lattice.voted
    /\ lattice.d = 6
    /\ ~lattice.positive
    /\ lattice.first = << <<0>>, <<-1>> >>
    /\ lattice.second = << <<0>>, <<-1>> >>

============================================================================
